---- MODULE Spec2Model ----
(***************************************************************************)
(* Compleo wallbox integration: the smart-charging controller              *)
(* (CompleoSmartChargingController) and the update cycle that drives it    *)
(* (CompleoDataUpdateCoordinator._async_update_data), modelled from        *)
(* custom_components/compleo_wallbox/__init__.py.                          *)
(*                                                                         *)
(* Powers are integer watts, time is integer seconds (time.time()).        *)
(* None is the empty sequence <<>>, a forced phase mode v is <<v>>.        *)
(***************************************************************************)
EXTENDS Integers, Sequences, FiniteSets, TLC

\* ------------------------------------------------------------------------
\* Register map (const.py)
\* ------------------------------------------------------------------------
ADDR_LP1_BASE == 256
ADDR_LP2_BASE == 512
OFFSET_MAX_POWER == 0
OFFSET_PHASE_MODE == 9
REG_SYS_POWER_LIMIT == 0
REG_SYS_MAX_SCHIEFLAST == 2
REG_SYS_FALLBACK_POWER == 3
REG_SYS_FW_PATCH == 6
REG_SYS_TOTAL_POWER_READ == 9
REG_SYS_ARTICLE_NUM == 32
REG_SYS_SERIAL_NUM == 48
LEN_STRING_REGISTERS == 16
OFFSET_STATUS_WORD == 1
OFFSET_PHASE_SWITCHES == 10
OFFSET_RFID_TAG == 16
OFFSET_DERATING_STATUS == 26
\* Imported by __init__.py from const.py, whose copy in the source tree does
\* not define them: the addresses of the documented register table.
REG_SYS_NUM_POINTS == 8
OFFSET_METER_READING == 24

\* ------------------------------------------------------------------------
\* Logic constants.  __init__.py imports them from const.py, whose copy in
\* the source tree does not define them; the values are the documented ones
\* (11 000 W fast target, 20 / 15 minute holds, 10 % drop threshold).  The
\* solar buffer, the default manual limit and the default minimum current
\* are not documented with a value; the ones below are representative.
\* ------------------------------------------------------------------------
MODE_FAST == "fast"
MODE_LIMITED == "limited"
MODE_SOLAR == "solar"
CHARGING_MODES == {MODE_FAST, MODE_LIMITED, MODE_SOLAR}
DEFAULT_FAST_POWER == 11000
DEFAULT_LIMITED_POWER == 3600
DEFAULT_SOLAR_BUFFER == 500
DEFAULT_ZOE_MIN_CURRENT == 6
TIME_HOLD_RISING == 20
TIME_HOLD_FALLING == 15
THRESHOLD_DROP_PERCENT == 10

\* ------------------------------------------------------------------------
\* Bounds of the model
\* ------------------------------------------------------------------------
\* time.time() at the first cycle, in seconds after the epoch (in reality
\* about 1.7e9: far more than either hold time after last_change_ts = 0).
BootTime == 1200
\* Seconds by which one Tick advances the clock.
TickSeconds == 300
\* Number of Ticks after boot.
MaxTicks == 4

\* Update cycles in a row in which reads fail.
MaxFaultyRun == 1
\* Update cycles the accumulated sensor is followed through.
MaxSensorCycles == 3
MaxDecodeCycles == 2

\* Charge point indices the station can report (num_points is 1 or 2).
Points == {1, 2}
\* Values the entities feed to the controller.
SolarExcessValues ==
    {0, 1700, 2500, 4500, 5000, 5500, 8000}
ManualLimitValues == {DEFAULT_LIMITED_POWER, 2050}
MinCurrentValues == {DEFAULT_ZOE_MIN_CURRENT, 11}

VARIABLES
    points_state,   \* controller.points_state: index -> state dict
    now,            \* time.time()
    pc,             \* where the update cycle is: "idle", "logic",
                    \* "power_sent", "phase_sent"
    num_points,     \* num_points of the cycle in flight (0: no cycle)
    idx,            \* loop variable i of _async_update_data
    frame,          \* locals of the run_logic call in flight
    writes          \* async_write_register calls made by that run_logic
                    \* call, in order: <<address, value>>

ctlvars == <<points_state, now, pc, num_points, idx, frame, writes>>

VARIABLES
    lib,            \* the installed Modbus client library: which keyword it
                    \* takes for the unit id, whether count may be
                    \* positional, whether an error response has .registers
    connected,      \* client.connected
    strategy_name,  \* coordinator._strategy_name (<<>> is None)
    fault,          \* what the station does to the requests of the cycle
                    \* in flight (at idle: what it did to those of the
                    \* last cycle): the operations that fail, and how
    call,           \* per task, its _read_registers_safe or
                    \* async_write_register call in flight
    fop,            \* the read of _fetch_wallbox_data in progress (an
                    \* index in FetchProgram, 0: none)
    fetch,          \* the locals of _fetch_wallbox_data, new_data among
                    \* them: the snapshot it is building
    data,           \* coordinator.data: the last snapshot returned
    cycle_result,   \* how the last _async_update_data call ended: "none"
                    \* (not yet), "data" or "UpdateFailed"
    exc_pending,    \* a request raised and connect() was not called since
    unloaded,       \* async_unload_entry has run: the entry is unloaded
    sensor          \* the CompleoAccumulatedSensor of point 1: whether it
                    \* was added to hass, _total_value, _last_session_value

iovars == <<lib, connected, strategy_name, fault, call, fop, fetch, data,
            cycle_result, exc_pending, unloaded, sensor>>

vars == <<points_state, now, pc, num_points, idx, frame, writes,
          lib, connected, strategy_name, fault, call, fop, fetch, data,
          cycle_result, exc_pending, unloaded, sensor>>

\* ------------------------------------------------------------------------
\* CompleoSmartChargingController
\* ------------------------------------------------------------------------
DefaultPointState ==
    [mode |-> MODE_FAST,
     manual_limit |-> DEFAULT_LIMITED_POWER,
     solar_excess |-> 0,
     zoe_mode |-> FALSE,
     zoe_min_current |-> DEFAULT_ZOE_MIN_CURRENT,
     last_power_target |-> 0,
     last_change_ts |-> 0,
     stable_target |-> 0]

\* init_point without its "if index not in self.points_state" test.
init_point_Overwrites(ps, index) ==
    (index :> DefaultPointState) @@ ps

\* init_point: create the state on first reference, never overwrite it.
init_point(ps, index) ==
    IF index \in DOMAIN ps THEN ps ELSE ps @@ (index :> DefaultPointState)

\* BaseAddr giving every point the block of point 1.
BaseAddr_Shared(index) == ADDR_LP1_BASE

\* base_addr = ADDR_LP1_BASE if index == 1 else ADDR_LP2_BASE
BaseAddr(index) == IF index = 1 THEN ADDR_LP1_BASE ELSE ADDR_LP2_BASE

\* RawTargetPower with the fast branch taking the manual limit.
RawTargetPower_FastIsLimit(st) ==
    IF st.mode = MODE_FAST THEN st.manual_limit
    ELSE IF st.mode = MODE_LIMITED THEN st.manual_limit
    ELSE IF st.mode = MODE_SOLAR THEN
        LET raw_solar == st.solar_excess - DEFAULT_SOLAR_BUFFER
        IN  IF raw_solar < 0 THEN 0 ELSE raw_solar
    ELSE 0

\* RawTargetPower with the limited branch following the stable target.
RawTargetPower_LimitedIsStable(st) ==
    IF st.mode = MODE_FAST THEN DEFAULT_FAST_POWER
    ELSE IF st.mode = MODE_LIMITED THEN
        IF st.stable_target > 0 THEN st.stable_target ELSE st.manual_limit
    ELSE IF st.mode = MODE_SOLAR THEN
        LET raw_solar == st.solar_excess - DEFAULT_SOLAR_BUFFER
        IN  IF raw_solar < 0 THEN 0 ELSE raw_solar
    ELSE 0

\* RawTargetPower without "if raw_solar < 0: raw_solar = 0".
RawTargetPower_NoClamp(st) ==
    IF st.mode = MODE_FAST THEN DEFAULT_FAST_POWER
    ELSE IF st.mode = MODE_LIMITED THEN st.manual_limit
    ELSE IF st.mode = MODE_SOLAR THEN st.solar_excess - DEFAULT_SOLAR_BUFFER
    ELSE 0

\* Step 1 of run_logic: the raw target power of the mode.
RawTargetPower(st) ==
    IF st.mode = MODE_FAST THEN DEFAULT_FAST_POWER
    ELSE IF st.mode = MODE_LIMITED THEN st.manual_limit
    ELSE IF st.mode = MODE_SOLAR THEN
        LET raw_solar == st.solar_excess - DEFAULT_SOLAR_BUFFER
        IN  IF raw_solar < 0 THEN 0 ELSE raw_solar
    ELSE 0

\* ZoeLogic without "target_power = 0" below the 1-phase minimum.
ZoeLogic_NoStop(min_amp, target_power) ==
    LET threshold_3ph == min_amp * 230 * 3
        max_power_1ph == 32 * 230
    IN  IF target_power < threshold_3ph THEN
            [target_power |->
                 IF target_power > max_power_1ph THEN max_power_1ph
                 ELSE target_power,
             target_phase_mode |-> <<2>>]
        ELSE
            [target_power |-> target_power, target_phase_mode |-> <<3>>]

\* ZoeLogic without the 1-phase cap.
ZoeLogic_NoCap(min_amp, target_power) ==
    LET threshold_3ph == min_amp * 230 * 3
        min_power_1ph == min_amp * 230
    IN  IF target_power < min_power_1ph THEN
            [target_power |-> 0, target_phase_mode |-> <<2>>]
        ELSE IF target_power < threshold_3ph THEN
            [target_power |-> target_power, target_phase_mode |-> <<2>>]
        ELSE
            [target_power |-> target_power, target_phase_mode |-> <<3>>]

\* ZoeLogic with the 1-phase cap applied in the 3-phase branch as well.
ZoeLogic_CapAll(min_amp, target_power) ==
    LET threshold_3ph == min_amp * 230 * 3
        min_power_1ph == min_amp * 230
        max_power_1ph == 32 * 230
        capped == IF target_power > max_power_1ph THEN max_power_1ph
                  ELSE target_power
    IN  IF target_power < min_power_1ph THEN
            [target_power |-> 0, target_phase_mode |-> <<2>>]
        ELSE IF target_power < threshold_3ph THEN
            [target_power |-> capped, target_phase_mode |-> <<2>>]
        ELSE
            [target_power |-> capped, target_phase_mode |-> <<3>>]

\* Step 2 of run_logic, the branch taken in solar mode with zoe_mode on:
\* forced phase switching on the raw target.
ZoeLogic(min_amp, target_power) ==
    LET threshold_3ph == min_amp * 230 * 3
        min_power_1ph == min_amp * 230
        max_power_1ph == 32 * 230
    IN  IF target_power < min_power_1ph THEN
            [target_power |-> 0, target_phase_mode |-> <<2>>]
        ELSE IF target_power < threshold_3ph THEN
            [target_power |->
                 IF target_power > max_power_1ph THEN max_power_1ph
                 ELSE target_power,
             target_phase_mode |-> <<2>>]
        ELSE
            [target_power |-> target_power, target_phase_mode |-> <<3>>]

\* PhaseLogic without the test of the mode.
PhaseLogic_AnyMode(st, target_power) ==
    IF st.zoe_mode
    THEN ZoeLogic(st.zoe_min_current, target_power)
    ELSE [target_power |-> target_power, target_phase_mode |-> <<>>]

\* Step 2 of run_logic: target_phase_mode stays None outside solar + zoe.
PhaseLogic(st, target_power) ==
    IF st.mode = MODE_SOLAR /\ st.zoe_mode
    THEN ZoeLogic(st.zoe_min_current, target_power)
    ELSE [target_power |-> target_power, target_phase_mode |-> <<>>]

\* IsSignificantDrop with the drop taken as a fraction, not a percentage.
IsSignificantDrop_Fraction(last_target, target_power) ==
    /\ last_target > 0
    /\ (last_target - target_power) > THRESHOLD_DROP_PERCENT * last_target

\* drop_pct = (last_target - target_power) / last_target * 100 is computed
\* in floating point and compared with THRESHOLD_DROP_PERCENT.  For integer
\* watts of the magnitudes used here the comparison agrees with the exact
\* one, which is stated without the division.
IsSignificantDrop(last_target, target_power) ==
    /\ last_target > 0
    /\ (last_target - target_power) * 100 > THRESHOLD_DROP_PERCENT * last_target

\* HoldElapsed with ">" where the code compares with ">=".
HoldElapsed_Strict(t, last_ts, hold_minutes) ==
    (t - last_ts) > hold_minutes * 60

\* minutes_since_change >= hold, with minutes_since_change = (now - last_ts) / 60
HoldElapsed(t, last_ts, hold_minutes) ==
    (t - last_ts) >= hold_minutes * 60

\* The result of accepting the target in a cycle at time t.
Accept(target_power, t) ==
    [stable_target |-> target_power, last_change_ts |-> t,
     target_power |-> target_power]

\* Hold restarting the hold time.
Hold_ResetsStamp(last_target, last_ts) ==
    [stable_target |-> last_target, last_change_ts |-> 0,
     target_power |-> last_target]

\* The result of holding: the state is kept and the old target is reused.
Hold(last_target, last_ts) ==
    [stable_target |-> last_target, last_change_ts |-> last_ts,
     target_power |-> last_target]

\* RisingBranch holding for TIME_HOLD_FALLING.
RisingBranch_FallingHold(last_target, last_ts, target_power, t) ==
    IF HoldElapsed(t, last_ts, TIME_HOLD_FALLING)
    THEN Accept(target_power, t)
    ELSE Hold(last_target, last_ts)

\* RisingBranch without "target_power = last_target" while holding.
RisingBranch_KeepsRaw(last_target, last_ts, target_power, t) ==
    IF HoldElapsed(t, last_ts, TIME_HOLD_RISING)
    THEN Accept(target_power, t)
    ELSE [stable_target |-> last_target, last_change_ts |-> last_ts,
          target_power |-> target_power]

\* "elif target_power > last_target": hold for TIME_HOLD_RISING.
RisingBranch(last_target, last_ts, target_power, t) ==
    IF HoldElapsed(t, last_ts, TIME_HOLD_RISING)
    THEN Accept(target_power, t)
    ELSE Hold(last_target, last_ts)

\* FallingBranch comparing seconds, not minutes, with TIME_HOLD_FALLING.
FallingBranch_Seconds(last_target, last_ts, target_power, t) ==
    IF (t - last_ts) >= TIME_HOLD_FALLING
    THEN Accept(target_power, t)
    ELSE Hold(last_target, last_ts)

\* FallingBranch without "target_power = last_target" while holding.
FallingBranch_KeepsRaw(last_target, last_ts, target_power, t) ==
    IF HoldElapsed(t, last_ts, TIME_HOLD_FALLING)
    THEN Accept(target_power, t)
    ELSE [stable_target |-> last_target, last_change_ts |-> last_ts,
          target_power |-> target_power]

\* "elif target_power < last_target": hold for TIME_HOLD_FALLING.
FallingBranch(last_target, last_ts, target_power, t) ==
    IF HoldElapsed(t, last_ts, TIME_HOLD_FALLING)
    THEN Accept(target_power, t)
    ELSE Hold(last_target, last_ts)

\* The if / elif chain of step 3.
HysteresisChain(last_target, last_ts, target_power, t) ==
    IF IsSignificantDrop(last_target, target_power) THEN
        Accept(target_power, t)
    ELSE IF target_power > last_target THEN
        RisingBranch(last_target, last_ts, target_power, t)
    ELSE IF target_power < last_target THEN
        FallingBranch(last_target, last_ts, target_power, t)
    ELSE
        [stable_target |-> last_target, last_change_ts |-> last_ts,
         target_power |-> target_power]

\* "If starting (last_target 0), take immediate": runs after the chain, on
\* the target_power the chain left.
ColdStart(last_target, h, t) ==
    IF last_target = 0 /\ h.target_power > 0
    THEN Accept(h.target_power, t)
    ELSE h

\* Step 3 of run_logic (solar mode only).
Hysteresis(last_target, last_ts, target_power, t) ==
    ColdStart(last_target,
              HysteresisChain(last_target, last_ts, target_power, t), t)

\* ValToWrite rounding to the nearest 100 W.
ValToWrite_Rounds(target_power) ==
    (target_power + 50) \div 100

\* val_to_write = int(target_power / 100): truncation towards zero.
ValToWrite(target_power) ==
    IF target_power >= 0 THEN target_power \div 100
    ELSE -((-target_power) \div 100)

\* Steps 1 to 3 of run_logic on the state st of a point at time t.
ComputeTarget(st, t) ==
    LET raw == RawTargetPower(st)
        ph  == PhaseLogic(st, raw)
        hy  == IF st.mode = MODE_SOLAR
               THEN Hysteresis(st.stable_target, st.last_change_ts,
                               ph.target_power, t)
               ELSE [stable_target |-> st.stable_target,
                     last_change_ts |-> st.last_change_ts,
                     target_power |-> ph.target_power]
    IN  [raw_power |-> raw,
         raw_target |-> ph.target_power,
         target_phase_mode |-> ph.target_phase_mode,
         target_power |-> hy.target_power,
         stable_target |-> hy.stable_target,
         last_change_ts |-> hy.last_change_ts]

\* The locals of a run_logic call, as kept in frame: the inputs it read
\* (mode, zoe_mode, min_amp, last_target, last_ts, now), target_power after
\* step 1 (raw_power), after step 2 (raw_target) and after step 3
\* (target_power), and target_phase_mode.
NoFrame ==
    [index |-> 0, mode |-> MODE_FAST, zoe_mode |-> FALSE, min_amp |-> 0,
     last_target |-> 0, last_ts |-> 0, now |-> 0,
     raw_power |-> 0, raw_target |-> 0, target_power |-> 0,
     target_phase_mode |-> <<>>]

\* ------------------------------------------------------------------------
\* The Modbus client and the station
\* ------------------------------------------------------------------------
\* The client libraries the calls are written for.  kw: the keyword the
\* read_*/write_register functions take for the unit id ("none": neither
\* slave= nor unit=); pos_count: whether count may be passed positionally;
\* err_has_registers: whether an error response has a .registers list
\* (empty).  A call with a keyword or a positional argument the library does
\* not take raises TypeError.
LibProfiles ==
    { [kw |-> "slave", pos_count |-> TRUE,  err_has_registers |-> TRUE],
      [kw |-> "unit",  pos_count |-> TRUE,  err_has_registers |-> FALSE],
      [kw |-> "none",  pos_count |-> FALSE, err_has_registers |-> TRUE] }

\* The tasks of the event loop that talk to the station: the update cycle
\* and the service call of an entity (number, select, switch).
Tasks == {"cycle", "setter"}

\* The order of the strategies of _read_registers_safe.
Strategies ==
    <<"slave_pos_cnt", "unit_pos_cnt", "no_unit_pos_cnt",
      "slave_kw_cnt", "unit_kw_cnt", "no_unit_kw_cnt">>

\* attempts of async_write_register: {"slave": id}, {"unit": id}, {}.
WriteAttempts == <<"slave", "unit", "no_unit">>

\* The unit-id keyword a strategy or a write attempt passes.
EntryKw(name) ==
    CASE name \in {"slave_pos_cnt", "slave_kw_cnt", "slave"} -> "slave"
      [] name \in {"unit_pos_cnt", "unit_kw_cnt", "unit"} -> "unit"
      [] OTHER -> "none"

\* Whether a strategy passes count positionally.
EntryPos(name) ==
    name \in {"slave_pos_cnt", "unit_pos_cnt", "no_unit_pos_cnt"}

\* The library takes the call (no TypeError).
Accepts(l, name) ==
    /\ EntryKw(name) \in {"none", l.kw}
    /\ EntryPos(name) => l.pos_count

\* strategies.insert(0, strategies.pop(i)): the cached strategy first.
StrategyOrder(cached) ==
    IF cached = <<>> THEN Strategies
    ELSE <<cached[1]>> \o SelectSeq(Strategies, LAMBDA s : s # cached[1])

\* No call in flight.
NoCall ==
    [kind |-> "none", op |-> <<0, "">>, address |-> 0, arg |-> 0,
     todo |-> <<>>, stage |-> "done", result |-> "none", sent |-> 0]

\* Contents of the registers of the station whose values the snapshot
\* shows: the two firmware registers at REG_SYS_FW_PATCH, and per point the
\* session energy (register 7 of the status block) and the meter reading.
DefaultRegisters ==
    [fw |-> <<1280, 258>>,
     energy |-> [i \in Points |-> IF i = 1 THEN 123 ELSE 7],
     meter |-> [i \in Points |-> IF i = 1 THEN 4567 ELSE 89]]

\* The station answers every request of the cycle; its num_points register
\* holds 2.  run counts the cycles in a row, up to this one, in which
\* reads failed.
NoFault ==
    [ops |-> {}, kind |-> "ok", num_points_reg |-> 2, run |-> 0,
     regs |-> DefaultRegisters, shown |-> 0]

\* What becomes of a request of operation op: "ok" (a response with the
\* registers asked for), "short" (a response with fewer registers),
\* "error" (an error response), "none" (the call returns None),
\* "exception" (the call raises: timeout, connection lost, ...).
Outcome(f, op) == IF op \in f.ops THEN f.kind ELSE "ok"

\* The entries of todo the library rejects with TypeError are skipped
\* ("except TypeError: continue").
RECURSIVE SkipRejected(_, _)
SkipRejected(l, todo) ==
    IF todo = <<>> THEN <<>>
    ELSE IF Accepts(l, Head(todo)) THEN todo
    ELSE SkipRejected(l, Tail(todo))

\* Proceed with the exception of a call on a client that is not connected
\* leaving the loop.
Proceed_RaisesUnconnected(l, conn, c) ==
    LET rest == SkipRejected(l, c.todo)
    IN  IF ~conn
        THEN [c EXCEPT !.todo = <<>>, !.stage = "done", !.result = "raised"]
        ELSE IF rest = <<>>
        THEN [c EXCEPT !.todo = <<>>, !.stage = "done", !.result = "none"]
        ELSE [c EXCEPT !.todo = rest, !.stage = "wait", !.sent = @ + 1]

\* The loop over the strategies (attempts) from the head of c.todo up to
\* its next await: the first call the library takes sends its request
\* and the task waits for the answer.  On a client that is not connected
\* every call raises without sending, and the loop ends: return None.
Proceed(l, conn, c) ==
    LET rest == SkipRejected(l, c.todo)
    IN  IF ~conn \/ rest = <<>>
        THEN [c EXCEPT !.todo = <<>>, !.stage = "done", !.result = "none"]
        ELSE [c EXCEPT !.todo = rest, !.stage = "wait", !.sent = @ + 1]

\* ReadOnResponse going on to the next strategy after an error response.
ReadOnResponse_ErrorContinues(l, conn, c, o) ==
    CASE o = "none" -> [c EXCEPT !.stage = "done", !.result = o]
      [] o = "ok" -> [c EXCEPT !.stage = "done", !.result = "ok"]
      [] OTHER -> Proceed(l, conn, [c EXCEPT !.todo = Tail(@)])

\* _read_registers_safe, the body of the loop after the await, on outcome
\* o of the request: None and error responses are returned as they are, a
\* short response and an exception try the next strategy, a full response
\* is returned and its strategy cached.
ReadOnResponse(l, conn, c, o) ==
    CASE o \in {"none", "error"} -> [c EXCEPT !.stage = "done", !.result = o]
      [] o = "ok" -> [c EXCEPT !.stage = "done", !.result = "ok"]
      [] OTHER -> Proceed(l, conn, [c EXCEPT !.todo = Tail(@)])

\* WriteOnResponse without "except Exception": the exception of the
\* request leaves async_write_register.
WriteOnResponse_Raises(l, conn, c, o) ==
    IF o = "ok" THEN [c EXCEPT !.stage = "done", !.result = "ok"]
    ELSE IF o = "exception"
    THEN [c EXCEPT !.todo = <<>>, !.stage = "done", !.result = "raised"]
    ELSE Proceed(l, conn, [c EXCEPT !.todo = Tail(@)])

\* async_write_register, the body of the loop after the await: a result
\* that is truthy and no error is returned; after None, an error response
\* or an exception the loop goes on with the next attempt.
WriteOnResponse(l, conn, c, o) ==
    IF o = "ok" THEN [c EXCEPT !.stage = "done", !.result = "ok"]
    ELSE Proceed(l, conn, [c EXCEPT !.todo = Tail(@)])

\* _read_registers_safe / async_write_register up to the first await: on a
\* connected client the loop starts at once, else connect() is awaited.
StartCall(l, conn, cached, kind, op, address, arg) ==
    LET c == [kind |-> kind, op |-> op, address |-> address, arg |-> arg,
              todo |-> IF kind = "read" THEN StrategyOrder(cached)
                       ELSE WriteAttempts,
              stage |-> "connect", result |-> "none", sent |-> 0]
    IN  IF conn THEN Proceed(l, TRUE, c) ELSE c

\* ------------------------------------------------------------------------
\* _fetch_wallbox_data
\* ------------------------------------------------------------------------
StatusKeys ==
    {"status_word", "current_power", "current_l1", "current_l2",
     "current_l3", "charging_time", "energy_session"}

PhaseSwitchKeys ==
    {"phase_switch_count", "error_code", "status_code", "voltage_l1",
     "voltage_l2", "voltage_l3"}

TotalKeys ==
    {"total_power", "total_current_l1", "total_current_l2",
     "total_current_l3", "unused_power"}

\* One _read_registers_safe call of the fetch.  guard is the test its
\* result goes through: "num_points" (line 239), "system" (with hasattr),
\* "string" (_read_string, input registers), "fallback" (_read_string,
\* holding registers, only if the first read gave no string), "point"
\* (_read_charging_point_data: rr and len(rr.registers) >= count).
Read(point, id, func, address, count, keys, guard) ==
    [point |-> point, id |-> id, func |-> func, address |-> address,
     count |-> count, keys |-> keys, guard |-> guard]

SystemReads ==
    << Read(0, "num_points", "input", REG_SYS_NUM_POINTS, 1,
            {"num_points"}, "num_points"),
       Read(0, "power_setpoint_abs", "holding", REG_SYS_POWER_LIMIT, 1,
            {"power_setpoint_abs"}, "system"),
       Read(0, "max_schieflast", "holding", REG_SYS_MAX_SCHIEFLAST, 1,
            {"max_schieflast"}, "system"),
       Read(0, "fallback_power", "holding", REG_SYS_FALLBACK_POWER, 1,
            {"fallback_power"}, "system"),
       Read(0, "firmware_version", "input", REG_SYS_FW_PATCH, 2,
            {"firmware_version"}, "system"),
       Read(0, "totals", "input", REG_SYS_TOTAL_POWER_READ, 5,
            TotalKeys, "system"),
       Read(0, "article_number", "input", REG_SYS_ARTICLE_NUM,
            LEN_STRING_REGISTERS, {"article_number"}, "string"),
       Read(0, "article_number_holding", "holding", REG_SYS_ARTICLE_NUM,
            LEN_STRING_REGISTERS, {"article_number"}, "fallback"),
       Read(0, "serial_number", "input", REG_SYS_SERIAL_NUM,
            LEN_STRING_REGISTERS, {"serial_number"}, "string"),
       Read(0, "serial_number_holding", "holding", REG_SYS_SERIAL_NUM,
            LEN_STRING_REGISTERS, {"serial_number"}, "fallback") >>

\* The reads of _read_charging_point_data(index), in order.
PointReads(index) ==
    << Read(index, "holding_block", "holding",
            BaseAddr(index) + OFFSET_MAX_POWER, 10,
            {"max_power_limit", "phase_mode"}, "point"),
       Read(index, "status_block", "input",
            BaseAddr(index) + OFFSET_STATUS_WORD, 8, StatusKeys, "point"),
       Read(index, "phase_block", "input",
            BaseAddr(index) + OFFSET_PHASE_SWITCHES, 6, PhaseSwitchKeys,
            "point"),
       Read(index, "rfid_tag", "input",
            BaseAddr(index) + OFFSET_RFID_TAG, 10, {"rfid_tag"}, "string"),
       Read(index, "rfid_tag_holding", "holding",
            BaseAddr(index) + OFFSET_RFID_TAG, 10, {"rfid_tag"}, "fallback"),
       Read(index, "meter_reading", "input",
            BaseAddr(index) + OFFSET_METER_READING, 1, {"meter_reading"},
            "point"),
       Read(index, "derating_status", "input",
            BaseAddr(index) + OFFSET_DERATING_STATUS, 1,
            {"derating_status"}, "point") >>

\* Every read the fetch can make, in the order of the code.
FetchProgram == SystemReads \o PointReads(1) \o PointReads(2)

\* The key of a read in a fault plan.
OpOf(r) == <<r.point, r.id>>

\* The locals of _fetch_wallbox_data: new_data["system"] and
\* new_data["points"] as the sets of the keys present (points[i] = {}: no
\* entry for point i), data of the _read_charging_point_data call in
\* progress (pd), and found.
\* FirmwareVersion taking the registers in the other order.
FirmwareVersion_Swapped(registers) ==
    <<registers[1] \div 256, registers[1] % 256, registers[2] \div 256>>

\* f"{registers[1]>>8}.{registers[1]&0xFF}.{registers[0]>>8}" on 16-bit
\* registers (sequences count from 1): the three numbers of the string.
FirmwareVersion(registers) ==
    <<registers[2] \div 256, registers[2] % 256, registers[1] \div 256>>

\* registers[k] * 0.1, a number of kWh: kept in Wh.
TenthsOfKWh(register) == register * 100

\* dict.get(key, default) on a field kept as <<>> (missing) or <<value>>.
Get(field, default) == IF field = <<>> THEN default ELSE field[1]

\* The values of a point and of a snapshot the model follows, next to the
\* keys: <<>> where the key is missing.
NoPointValues == [energy_session |-> <<>>, meter_reading |-> <<>>]
NoValues ==
    [firmware_version |-> <<>>,
     points |-> [i \in Points |-> NoPointValues],
     total_energy_session |-> <<>>,
     total_energy_total |-> <<>>]

\* The locals of _fetch_wallbox_data when it starts: new_data (system,
\* points and their values), the data of the point being read (pd, pdv),
\* found, sum_sess and sum_tot.
NoFetch ==
    [system |-> {}, points |-> [i \in Points |-> {}], pd |-> {},
     found |-> FALSE, values |-> NoValues, pdv |-> NoPointValues,
     sum_sess |-> 0, sum_tot |-> 0]

\* NumPoints with 2 as the default.
NumPoints_DefaultTwo(result, v) ==
    IF result = "ok" /\ v \in {1, 2} THEN v ELSE 2

\* num_points as lines 237-241 compute it from the result of the read and
\* the register value v.
NumPoints(result, v) ==
    IF result = "ok" /\ v \in {1, 2} THEN v ELSE 1

\* GuardRaises with the system reads tested like the point reads, without
\* hasattr.
GuardRaises_NoHasattr(l, r, result) ==
    r.guard \in {"point", "system"} /\ result = "error"
        /\ ~l.err_has_registers

\* The test on the result of a read raises AttributeError: a point read
\* tests len(rr.registers) without hasattr, on an error response of a
\* library whose error responses have no .registers.
GuardRaises(l, r, result) ==
    r.guard = "point" /\ result = "error" /\ ~l.err_has_registers

\* The keys the result of read r stores.
KeysRead(r, result) ==
    IF r.guard = "num_points" THEN {"num_points"}
    ELSE IF result = "ok" THEN r.keys
    ELSE {}

\* The values the result of read r stores, regs being the registers of
\* the station.
ValuesRead(f, r, result, regs) ==
    IF result # "ok" THEN f
    ELSE IF r.id = "firmware_version" THEN
        [f EXCEPT !.values.firmware_version = <<FirmwareVersion(regs.fw)>>]
    ELSE IF r.id = "status_block" THEN
        [f EXCEPT !.pdv.energy_session = <<TenthsOfKWh(regs.energy[r.point])>>]
    ELSE IF r.id = "meter_reading" THEN
        [f EXCEPT !.pdv.meter_reading = <<TenthsOfKWh(regs.meter[r.point])>>]
    ELSE f

\* StorePoint adding a point to the sums only when it has both fields.
StorePoint_SumsComplete(f, i) ==
    IF f.pd # {}
    THEN LET whole == f.pdv.energy_session # <<>> /\ f.pdv.meter_reading # <<>>
         IN  [f EXCEPT !.points[i] = f.pd, !.pd = {}, !.found = TRUE,
                       !.values.points[i] = f.pdv, !.pdv = NoPointValues,
                       !.sum_sess = IF whole THEN @ + f.pdv.energy_session[1] ELSE @,
                       !.sum_tot = IF whole THEN @ + f.pdv.meter_reading[1] ELSE @]
    ELSE f

\* "if pd:" of lines 273-278, when _read_charging_point_data(i) returned.
StorePoint(f, i) ==
    IF f.pd # {}
    THEN [f EXCEPT !.points[i] = f.pd, !.pd = {}, !.found = TRUE,
                   !.values.points[i] = f.pdv, !.pdv = NoPointValues,
                   !.sum_sess = @ + Get(f.pdv.energy_session, 0),
                   !.sum_tot = @ + Get(f.pdv.meter_reading, 0)]
    ELSE f

\* The locals after the result of read r was tested and stored.
Absorb(f, r, result) ==
    LET ks == KeysRead(r, result)
        g  == IF r.point = 0 THEN [f EXCEPT !.system = @ \cup ks]
              ELSE [f EXCEPT !.pd = @ \cup ks]
        h  == ValuesRead(g, r, result, fault.regs)
    IN  IF r.id = "derating_status" THEN StorePoint(h, r.point) ELSE h

\* The read after read k (0: none, the point loop is over), with n points:
\* the holding fallback of a string is skipped when the string was read.
NextRead(k, result, n) ==
    LET k1 == IF FetchProgram[k].guard = "string" /\ result = "ok"
              THEN k + 2 ELSE k + 1
    IN  IF k1 > Len(SystemReads) + n * Len(PointReads(1)) THEN 0 ELSE k1

\* Lines 283-287: the totals are stored, "No data" is raised when no point
\* was found and new_data["system"] is empty.
FetchEnd(f) ==
    [f EXCEPT !.system = @ \cup {"total_energy_session", "total_energy_total"},
              !.values.total_energy_session = <<f.sum_sess>>,
              !.values.total_energy_total = <<f.sum_tot>>]

RaisesNoData(f) == ~f.found /\ f.system = {}

\* Snapshot with the fields of coordinator.data kept where the cycle read
\* none.
Snapshot_CarryOver(f, n) ==
    [num_points |-> n, system |-> f.system \cup data.system,
     points |-> [i \in Points |-> f.points[i] \cup data.points[i]],
     values |-> f.values]

\* The snapshot the cycle returns.
Snapshot(f, n) ==
    [num_points |-> n, system |-> f.system, points |-> f.points,
     values |-> f.values]

\* _handle_coordinator_update without the test for a new session.
HandleCoordinatorUpdate_NoReset(s, d) ==
    LET current_session == Get(d.values.points[1].energy_session, 0)
        delta == current_session - s.last_session_value
    IN  [s EXCEPT !.total_value = @ + delta,
                  !.last_session_value = current_session]

\* CompleoAccumulatedSensor._handle_coordinator_update of the sensor of
\* point 1 (source key energy_session) on snapshot d.  The value is never
\* None: the key is missing or holds a number.
HandleCoordinatorUpdate(s, d) ==
    LET current_session == Get(d.values.points[1].energy_session, 0)
        delta == current_session - s.last_session_value
    IN  [s EXCEPT !.total_value =
                      @ + IF delta < 0 THEN current_session ELSE delta,
                  !.last_session_value = current_session]

\* The coordinator calls the listeners when a cycle has returned its
\* snapshot: the handler of the sensor, once it is added to hass.
UpdateListeners(s, d) ==
    IF s.added THEN HandleCoordinatorUpdate(s, d) ELSE s

\* self.data of __init__: {"system": {"num_points": 1}, "points": {}}.
InitialData ==
    [num_points |-> 1, system |-> {"num_points"},
     points |-> [i \in Points |-> {}], values |-> NoValues]

\* ------------------------------------------------------------------------
\* State after construction
\* ------------------------------------------------------------------------
\* CompleoSmartChargingController.__init__, and no cycle in progress.
InitController ==
    /\ points_state = <<>>
    /\ now = BootTime
    /\ pc = "idle"
    /\ num_points = 0
    /\ idx = 0
    /\ frame = NoFrame
    /\ writes = <<>>

\* CompleoDataUpdateCoordinator.__init__ with client library l: the client
\* is created, not connected.
InitCoordinator(l) ==
    /\ lib = l
    /\ connected = FALSE
    /\ strategy_name = <<>>
    /\ fault = NoFault
    /\ call = [t \in Tasks |-> NoCall]
    /\ fop = 0
    /\ fetch = NoFetch
    /\ data = InitialData
    /\ cycle_result = "none"
    /\ exc_pending = FALSE
    /\ unloaded = FALSE

\* CompleoAccumulatedSensor.__init__: the totals are 0.0; the entity is not
\* yet added to hass.
NoSensor == [added |-> FALSE, total_value |-> 0, last_session_value |-> 0]

Init ==
    /\ sensor = NoSensor
    /\ InitController
    /\ InitCoordinator([kw |-> "slave", pos_count |-> TRUE,
                        err_has_registers |-> TRUE])

\* ------------------------------------------------------------------------
\* Operations
\* ------------------------------------------------------------------------
\* update_input(index, key, value)
UpdateInput(index, key, value) ==
    /\ points_state' = [init_point(points_state, index) EXCEPT ![index][key] = value]
    /\ UNCHANGED <<now, pc, num_points, idx, frame, writes>>

\* get_input(index, key): returns a value, creating the state if missing.
GetInput(index) ==
    /\ points_state' = init_point(points_state, index)
    /\ UNCHANGED <<now, pc, num_points, idx, frame, writes>>

\* The clock advances.
Tick ==
    /\ now - BootTime < MaxTicks * TickSeconds
    /\ now' = now + TickSeconds
    /\ UNCHANGED <<points_state, pc, num_points, idx, frame, writes>>

\* _async_update_data, step 1: _fetch_wallbox_data returns a snapshot whose
\* num_points is n; the loop over the points starts.
FetchReturns(n) ==
    /\ pc = "idle"
    /\ pc' = "logic"
    /\ num_points' = n
    /\ idx' = 1
    /\ UNCHANGED <<points_state, now, frame, writes>>

\* init_point(i) and run_logic(i) up to its first await: the target is
\* computed, the hysteresis state is updated and async_write_register is
\* called for the max-power register.
RunLogic ==
    /\ pc = "logic"
    /\ LET ps == init_point(points_state, idx)
           st == ps[idx]
           r  == ComputeTarget(st, now)
       IN  /\ points_state' = [ps EXCEPT ![idx].stable_target = r.stable_target,
                                         ![idx].last_change_ts = r.last_change_ts]
           /\ frame' = [index |-> idx, mode |-> st.mode,
                        zoe_mode |-> st.zoe_mode,
                        min_amp |-> st.zoe_min_current,
                        last_target |-> st.stable_target,
                        last_ts |-> st.last_change_ts,
                        now |-> now,
                        raw_power |-> r.raw_power,
                        raw_target |-> r.raw_target,
                        target_power |-> r.target_power,
                        target_phase_mode |-> r.target_phase_mode]
           /\ writes' = << <<BaseAddr(idx) + OFFSET_MAX_POWER,
                             ValToWrite(r.target_power)>> >>
    /\ pc' = "power_sent"
    /\ UNCHANGED <<now, num_points, idx>>

\* LoopNext ending the loop after the first point.
LoopNext_FirstPointOnly ==
    /\ frame' = NoFrame
    /\ writes' = <<>>
    /\ pc' = "idle"
    /\ idx' = 0
    /\ num_points' = 0

\* run_logic returned (its locals are gone): next point of the loop, or
\* the snapshot is returned and the cycle is over.
LoopNext ==
    /\ frame' = NoFrame
    /\ writes' = <<>>
    /\ IF idx < num_points
       THEN /\ idx' = idx + 1
            /\ pc' = "logic"
            /\ UNCHANGED num_points
       ELSE /\ pc' = "idle"
            /\ idx' = 0
            /\ num_points' = 0

\* PowerWriteReturns reading the inputs again after the await, where the
\* code uses the target_phase_mode it computed before it.
PowerWriteReturns_RereadsInputs ==
    /\ pc = "power_sent"
    /\ LET st == points_state[frame.index]
           ph == PhaseLogic(st, RawTargetPower(st)).target_phase_mode
       IN  IF ph # <<>>
           THEN /\ writes' = Append(writes, <<BaseAddr(frame.index) + OFFSET_PHASE_MODE,
                                              ph[1]>>)
                /\ pc' = "phase_sent"
                /\ UNCHANGED <<idx, num_points, frame>>
           ELSE LoopNext
    /\ UNCHANGED <<points_state, now>>

\* The await of the power write returns (whatever its result): the phase
\* mode is written if one was forced, else run_logic returns.
PowerWriteReturns ==
    /\ pc = "power_sent"
    /\ IF frame.target_phase_mode # <<>>
       THEN /\ writes' = Append(writes, <<BaseAddr(frame.index) + OFFSET_PHASE_MODE,
                                          frame.target_phase_mode[1]>>)
            /\ pc' = "phase_sent"
            /\ UNCHANGED <<idx, num_points, frame>>
       ELSE LoopNext
    /\ UNCHANGED <<points_state, now>>

\* The await of the phase-mode write returns: run_logic returns.
PhaseWriteReturns ==
    /\ pc = "phase_sent"
    /\ LoopNext
    /\ UNCHANGED <<points_state, now>>

\* ------------------------------------------------------------------------
\* Specification: the entities of one charge point are operated between
\* update cycles, the clock advances between cycles.
\* ------------------------------------------------------------------------
\* The inputs are fed by update_input calls between cycles, to one charge
\* point: every other point still has the state init_point gave it.
OthersDefault(index) ==
    \A j \in DOMAIN points_state : j # index => points_state[j] = DefaultPointState

UpdateMode ==
    \E i \in Points, v \in CHARGING_MODES :
        pc = "idle" /\ OthersDefault(i) /\ UpdateInput(i, "mode", v)

UpdateSolarExcess ==
    \E i \in Points, v \in SolarExcessValues :
        pc = "idle" /\ OthersDefault(i) /\ UpdateInput(i, "solar_excess", v)

UpdateManualLimit ==
    \E i \in Points, v \in ManualLimitValues :
        pc = "idle" /\ OthersDefault(i) /\ UpdateInput(i, "manual_limit", v)

UpdateZoeMode ==
    \E i \in Points, v \in BOOLEAN :
        pc = "idle" /\ OthersDefault(i) /\ UpdateInput(i, "zoe_mode", v)

UpdateMinCurrent ==
    \E i \in Points, v \in MinCurrentValues :
        pc = "idle" /\ OthersDefault(i) /\ UpdateInput(i, "zoe_min_current", v)

ReadInput ==
    \E i \in Points : pc = "idle" /\ GetInput(i)

ClockTick == pc = "idle" /\ Tick

Fetch == \E n \in {1, 2} : FetchReturns(n)

\* The controller on its own: the reads and the writes of the cycle are
\* taken as single steps, whatever their results.
Next ==
    \/ UpdateMode /\ UNCHANGED iovars
    \/ UpdateSolarExcess /\ UNCHANGED iovars
    \/ UpdateManualLimit /\ UNCHANGED iovars
    \/ UpdateZoeMode /\ UNCHANGED iovars
    \/ UpdateMinCurrent /\ UNCHANGED iovars
    \/ ReadInput /\ UNCHANGED iovars
    \/ ClockTick /\ UNCHANGED iovars
    \/ Fetch /\ UNCHANGED iovars
    \/ RunLogic /\ UNCHANGED iovars
    \/ PowerWriteReturns /\ UNCHANGED iovars
    \/ PhaseWriteReturns /\ UNCHANGED iovars

Spec == Init /\ [][Next]_vars

\* ------------------------------------------------------------------------
\* The update cycle with its reads and writes, and the service calls
\* ------------------------------------------------------------------------
\* The call in flight of the update cycle.
CycleCall == call["cycle"]

\* The station stops answering: the connection is lost.
LinkAfter(f, conn) == IF f.kind = "unreachable" THEN FALSE ELSE conn

\* _read_registers_safe is called for read k of the fetch.
StartRead(k, conn, cached) ==
    LET r == FetchProgram[k]
    IN  StartCall(lib, conn, cached, "read", OpOf(r), r.address, r.count)

\* async_write_register(address, value) is called for setpoint op.
StartWrite(op, w) ==
    StartCall(lib, connected', strategy_name, "write", op, w[1], w[2])

\* The timer fires: _async_update_data calls _fetch_wallbox_data, which
\* calls _read_registers_safe for num_points.  f is what the station does
\* to the requests of this cycle.
CycleStart(f) ==
    /\ pc = "idle"
    /\ pc' = "fetch"
    /\ fault' = f
    /\ connected' = LinkAfter(f, connected)
    /\ fop' = 1
    /\ fetch' = NoFetch
    /\ cycle_result' = "none"
    /\ call' = [call EXCEPT !["cycle"] = StartRead(1, connected', strategy_name)]
    /\ UNCHANGED <<points_state, now, num_points, idx, frame, writes,
                   lib, unloaded, sensor, strategy_name, data, exc_pending>>

\* await self.client.connect() returns: connected or not.
ConnectReturns(t) ==
    /\ call[t].stage = "connect"
    /\ connected' = (fault.kind # "unreachable")
    /\ exc_pending' = FALSE
    /\ call' = [call EXCEPT ![t].stage = "sleep"]
    /\ UNCHANGED <<ctlvars, lib, unloaded, sensor, strategy_name, fault, fop, fetch, data,
                   cycle_result>>

\* await asyncio.sleep(...) returns: the loop over the strategies
\* (attempts) starts.
SleepReturns(t) ==
    /\ call[t].stage = "sleep"
    /\ call' = [call EXCEPT ![t] =
                    Proceed(lib, connected,
                            [@ EXCEPT !.todo = IF call[t].kind = "read"
                                               THEN StrategyOrder(strategy_name)
                                               ELSE WriteAttempts])]
    /\ UNCHANGED <<ctlvars, lib, unloaded, sensor, connected, strategy_name, fault, fop, fetch,
                   data, cycle_result, exc_pending>>

\* The await of a request returns, with a response or an exception.  After
\* an exception the library may have dropped the connection or not; the
\* code does not close it.
Respond(t) ==
    /\ call[t].stage = "wait"
    /\ LET c == call[t]
           o == Outcome(fault, c.op)
       IN  /\ IF o = "exception"
              THEN /\ \E drop \in BOOLEAN : connected' = (connected /\ ~drop)
                   /\ exc_pending' = TRUE
              ELSE UNCHANGED <<connected, exc_pending>>
           /\ strategy_name' = IF c.kind = "read" /\ o = "ok"
                               THEN <<Head(c.todo)>> ELSE strategy_name
           /\ call' = [call EXCEPT ![t] =
                           IF c.kind = "read"
                           THEN ReadOnResponse(lib, connected', c, o)
                           ELSE WriteOnResponse(lib, connected', c, o)]
    /\ UNCHANGED <<ctlvars, lib, unloaded, sensor, fault, fop, fetch, data, cycle_result>>

\* Abort without the "raise UpdateFailed": the exception of the fetch is
\* dropped and the loop over the points runs on what was read.
Abort_RunsController ==
    /\ pc' = "logic"
    /\ idx' = 1
    /\ num_points' = 1
    /\ fop' = 0
    /\ fetch' = FetchEnd(fetch)
    /\ call' = [call EXCEPT !["cycle"] = NoCall]
    /\ UNCHANGED <<points_state, now, frame, writes, lib, unloaded, sensor, connected,
                   strategy_name, fault, data, cycle_result, exc_pending>>

\* "except Exception as err: raise UpdateFailed" of _async_update_data: the
\* cycle is over, coordinator.data stays what it was.
Abort ==
    /\ pc' = "idle"
    /\ cycle_result' = "UpdateFailed"
    /\ num_points' = 0
    /\ idx' = 0
    /\ frame' = NoFrame
    /\ writes' = <<>>
    /\ fop' = 0
    /\ fetch' = NoFetch
    /\ call' = [call EXCEPT !["cycle"] = NoCall]
    /\ UNCHANGED <<points_state, now, lib, unloaded, sensor, connected, strategy_name, fault,
                   data, exc_pending>>

\* A read of the fetch returned: its result is tested and stored, and the
\* next read is called; after the last one _fetch_wallbox_data returns
\* and the loop over the points starts.
FetchStep ==
    /\ pc = "fetch"
    /\ CycleCall.stage = "done"
    /\ LET r   == FetchProgram[fop]
           res == CycleCall.result
           n   == IF r.guard = "num_points"
                  THEN NumPoints(res, fault.num_points_reg) ELSE num_points
           f1  == Absorb(fetch, r, res)
           k   == NextRead(fop, res, n)
       IN  IF \/ res = "raised"
              \/ GuardRaises(lib, r, res)
              \/ (k = 0 /\ RaisesNoData(FetchEnd(f1)))
           THEN Abort
           ELSE /\ num_points' = n
                /\ fop' = k
                /\ IF k # 0
                   THEN /\ fetch' = f1
                        /\ call' = [call EXCEPT !["cycle"] =
                                        StartRead(k, connected, strategy_name)]
                        /\ UNCHANGED <<pc, idx>>
                   ELSE /\ fetch' = FetchEnd(f1)
                        /\ call' = [call EXCEPT !["cycle"] = NoCall]
                        /\ pc' = "logic"
                        /\ idx' = 1
                /\ UNCHANGED <<points_state, now, frame, writes, lib, unloaded, sensor,
                               connected, strategy_name, fault, data,
                               cycle_result, exc_pending>>

\* Setpoint operations of run_logic(index), as keys of a fault plan.
PowerOp(index) == <<index, "max_power">>
PhaseOp(index) == <<index, "phase_mode">>

\* run_logic(idx) up to the await in its first async_write_register call.
\* f is what the station does to the requests from now on.
CycleRunLogic(f) ==
    /\ RunLogic
    /\ fault' = f
    /\ connected' = LinkAfter(f, connected)
    /\ call' = [call EXCEPT !["cycle"] = StartWrite(PowerOp(idx), writes'[1])]
    /\ UNCHANGED <<lib, unloaded, sensor, strategy_name, fop, fetch, data, cycle_result,
                   exc_pending>>

\* What follows the return of a write of run_logic: the phase-mode write,
\* the next point, or the return of the snapshot, which the framework
\* stores in coordinator.data.
AfterWrite ==
    /\ UNCHANGED <<lib, unloaded, connected, strategy_name, fop, exc_pending>>
    /\ IF pc' = "phase_sent"
       THEN /\ call' = [call EXCEPT !["cycle"] =
                            StartWrite(PhaseOp(frame.index), writes'[2])]
            /\ UNCHANGED <<fetch, fault, data, cycle_result, sensor>>
       ELSE IF pc' = "logic"
       THEN /\ call' = [call EXCEPT !["cycle"] = NoCall]
            /\ UNCHANGED <<fetch, fault, data, cycle_result, sensor>>
       ELSE /\ call' = [call EXCEPT !["cycle"] = NoCall]
            /\ data' = Snapshot(fetch, num_points)
            /\ cycle_result' = "data"
            /\ fetch' = NoFetch
            /\ sensor' = UpdateListeners(sensor, data')
            /\ UNCHANGED fault

\* async_write_register returned to run_logic after the power write.  An
\* exception out of it would end the cycle in UpdateFailed.
CyclePowerWriteReturns ==
    /\ pc = "power_sent"
    /\ CycleCall.stage = "done"
    /\ IF CycleCall.result = "raised" THEN Abort
       ELSE PowerWriteReturns /\ AfterWrite

\* async_write_register returned to run_logic after the phase-mode write.
CyclePhaseWriteReturns ==
    /\ pc = "phase_sent"
    /\ CycleCall.stage = "done"
    /\ IF CycleCall.result = "raised" THEN Abort
       ELSE PhaseWriteReturns /\ AfterWrite

\* ------------------------------------------------------------------------
\* Specification of the setpoint writes: every read of the cycle succeeds,
\* the writes of run_logic fail in every way they can.
\* ------------------------------------------------------------------------
\* The ways a request of a write fails.
WriteFaultKinds == {"error", "none", "exception"}

\* What the station can do from the run_logic call of point i on: the
\* writes of the point that fail are added to those that failed before
\* (in one way per cycle), or the connection is lost for the rest of the
\* cycle.
WriteFaults(i) ==
    IF fault.kind = "unreachable" THEN {fault}
    ELSE {fault}
         \cup { [fault EXCEPT !.ops = @ \cup s, !.kind = k] :
                    s \in (SUBSET {PowerOp(i), PhaseOp(i)}) \ {{}},
                    k \in IF fault.ops = {} THEN WriteFaultKinds
                          ELSE {fault.kind} }
         \cup { [fault EXCEPT !.kind = "unreachable"] }

InitWrite ==
    /\ sensor = NoSensor
    /\ InitController
    /\ \E l \in LibProfiles : InitCoordinator(l)

WriteSetMode ==
    \E i \in Points, v \in {MODE_FAST, MODE_SOLAR} :
        pc = "idle" /\ UpdateInput(i, "mode", v) /\ UNCHANGED iovars

WriteSetZoeMode ==
    \E i \in Points, v \in BOOLEAN :
        pc = "idle" /\ UpdateInput(i, "zoe_mode", v) /\ UNCHANGED iovars

WriteCycleStart == CycleStart(NoFault)

WriteConnect == ConnectReturns("cycle")

WriteSleep == SleepReturns("cycle")

WriteRespond == Respond("cycle")

WriteRunLogic == \E f \in WriteFaults(idx) : CycleRunLogic(f)

NextWrite ==
    \/ WriteSetMode
    \/ WriteSetZoeMode
    \/ WriteCycleStart
    \/ WriteConnect
    \/ WriteSleep
    \/ WriteRespond
    \/ FetchStep
    \/ WriteRunLogic
    \/ CyclePowerWriteReturns
    \/ CyclePhaseWriteReturns

SpecWrite == InitWrite /\ [][NextWrite]_vars

\* ------------------------------------------------------------------------
\* Properties of run_logic.  They are stated on the states in which a
\* run_logic call is suspended in one of its writes: frame holds what the
\* call read and computed, points_state what it stored, writes what it wrote.
\* ------------------------------------------------------------------------
InCall == pc \in {"power_sent", "phase_sent"}

\* The controller state of the point of the call, as the call left it.
PointNow == points_state[frame.index]

\* The first write of the call: <<address, value>> of the power setpoint.
PowerWrite == writes[1]

PowerRegister == BaseAddr(frame.index) + OFFSET_MAX_POWER
PhaseRegister == BaseAddr(frame.index) + OFFSET_PHASE_MODE

\* Seconds between last_change_ts and the cycle.
SinceChange == frame.now - frame.last_ts

\* The raw target was accepted: stored, stamped and written.
RawAccepted ==
    /\ PointNow.stable_target = frame.raw_target
    /\ PointNow.last_change_ts = frame.now
    /\ PowerWrite = <<PowerRegister, frame.raw_target \div 100>>

\* The raw target was held back: the state is as before and the old stable
\* target is the effective target, the one written.
RawHeld ==
    /\ PointNow.stable_target = frame.last_target
    /\ PointNow.last_change_ts = frame.last_ts
    /\ frame.target_power = frame.last_target
    /\ PowerWrite = <<PowerRegister, frame.last_target \div 100>>

\* C1: in a solar cycle with stable_target = 0 and a raw target > 0 the raw
\* target is accepted in that cycle (stored and written), however little
\* time has passed since last_change_ts.
C1_ColdStartAccepted ==
    (InCall /\ frame.mode = MODE_SOLAR /\ frame.last_target = 0
            /\ frame.raw_target > 0)
        => /\ PointNow.stable_target = frame.raw_target
           /\ PowerWrite = <<PowerRegister, frame.raw_target \div 100>>

\* C2: in a solar cycle with stable_target > 0 a drop of strictly more than
\* 10 % is accepted at once: stable_target is the raw target, last_change_ts
\* is now and the raw target is written, however recent the last change.
C2_SharpDropAccepted ==
    (InCall /\ frame.mode = MODE_SOLAR /\ frame.last_target > 0
            /\ (frame.last_target - frame.raw_target) * 100 > 10 * frame.last_target)
        => RawAccepted

C2_Witness ==
    /\ InCall /\ frame.mode = MODE_SOLAR
    /\ frame.last_target = 5000 /\ frame.raw_target = 4000
    /\ SinceChange < 15 * 60
    /\ PointNow.stable_target = 4000
    /\ PowerWrite = <<ADDR_LP1_BASE, 40>>

\* C3: in a solar cycle with a raw target below stable_target by at most
\* 10 %, the raw target is accepted if 15 minutes have passed since
\* last_change_ts and only then; before that the effective target stays
\* stable_target and stable_target and last_change_ts are unchanged.
C3_SmallDropDamped ==
    (InCall /\ frame.mode = MODE_SOLAR
            /\ frame.raw_target < frame.last_target
            /\ (frame.last_target - frame.raw_target) * 100 <= 10 * frame.last_target)
        => IF SinceChange >= 15 * 60 THEN RawAccepted ELSE RawHeld

C3_Witness ==
    /\ InCall /\ frame.mode = MODE_SOLAR
    /\ frame.last_target = 5000 /\ frame.raw_target = 4500
    /\ SinceChange = 10 * 60
    /\ PointNow.stable_target = 5000
    /\ PowerWrite = <<ADDR_LP1_BASE, 50>>

\* C4: in a solar cycle with a raw target above a stable_target > 0, the
\* raw target is accepted if 20 minutes have passed since last_change_ts
\* and only then; before that the effective target stays stable_target and
\* stable_target and last_change_ts are unchanged.
C4_RiseDamped ==
    (InCall /\ frame.mode = MODE_SOLAR
            /\ frame.raw_target > frame.last_target /\ frame.last_target > 0)
        => IF SinceChange >= 20 * 60 THEN RawAccepted ELSE RawHeld

C4_Witness ==
    /\ InCall /\ frame.mode = MODE_SOLAR
    /\ frame.last_target = 4000 /\ frame.raw_target = 5000
    /\ SinceChange = 15 * 60
    /\ PointNow.stable_target = 4000
    /\ PowerWrite = <<ADDR_LP1_BASE, 40>>

\* C5: in a solar cycle that does not accept the raw target (stable_target
\* and last_change_ts are as before the cycle), the power written is the
\* previous stable_target in 100 W units, not the raw target.
C5_HeldWritesStable ==
    (InCall /\ frame.mode = MODE_SOLAR
            /\ PointNow.stable_target = frame.last_target
            /\ PointNow.last_change_ts = frame.last_ts)
        => PowerWrite = <<PowerRegister, frame.last_target \div 100>>

C5_Witness ==
    /\ InCall /\ frame.mode = MODE_SOLAR /\ frame.index = 2
    /\ frame.last_target = 2000 /\ frame.raw_target = 7500
    /\ PointNow.stable_target = 2000
    /\ PowerWrite = <<ADDR_LP2_BASE, 20>>

\* C6: a cycle in fast mode writes the fast-charge target, 11 000 W as
\* register value 110, to the max-power register of the point, whatever
\* the other inputs and the hysteresis state are.
C6_FastWritesFixed ==
    (InCall /\ frame.mode = MODE_FAST)
        => PowerWrite = <<PowerRegister, 110>>

C6_Witness ==
    /\ InCall /\ frame.mode = MODE_FAST
    /\ PointNow.solar_excess = 8000 /\ PointNow.manual_limit = 2050
    /\ PointNow.zoe_mode /\ PointNow.zoe_min_current = 11
    /\ PointNow.stable_target = 5000
    /\ PowerWrite = <<ADDR_LP1_BASE, 110>>

\* C7: a run_logic call writes a phase-mode register (base + 0x009) only
\* if it read mode = solar and zoe_mode on; with alt-mode off, and in fast
\* and limited mode, the call makes no write to a phase-mode register.
C7_PhaseWriteOnlySolarZoe ==
    \A k \in 1..Len(writes) :
        writes[k][1] \in {ADDR_LP1_BASE + 9, ADDR_LP2_BASE + 9}
            => (frame.mode = MODE_SOLAR /\ frame.zoe_mode)

C7_Witness ==
    /\ pc = "phase_sent"
    /\ frame.mode = MODE_SOLAR /\ frame.zoe_mode
    /\ Len(writes) = 2
    /\ writes[2] = <<ADDR_LP2_BASE + 9, 3>>

\* The phase mode v was forced: it is the call's target_phase_mode and,
\* once the power write has returned, it is written to base + 0x009.
PhaseForced(v) ==
    /\ frame.target_phase_mode = <<v>>
    /\ pc = "phase_sent" => (Len(writes) = 2 /\ writes[2] = <<PhaseRegister, v>>)

\* C8: in solar mode with alt-mode on and a raw solar target below
\* minAmp x 230 W the target is forced to 0 W (and 0 is written) and phase
\* mode 2 (1-phase) is written.
C8_BelowMinimumStops ==
    (InCall /\ frame.mode = MODE_SOLAR /\ frame.zoe_mode
            /\ frame.raw_power < frame.min_amp * 230)
        => /\ frame.raw_target = 0
           /\ PowerWrite = <<PowerRegister, 0>>
           /\ PhaseForced(2)

C8_Witness ==
    /\ pc = "phase_sent"
    /\ frame.mode = MODE_SOLAR /\ frame.zoe_mode
    /\ frame.min_amp = 6 /\ frame.raw_power = 1200
    /\ frame.last_target = 5000
    /\ writes = << <<ADDR_LP1_BASE, 0>>, <<ADDR_LP1_BASE + 9, 2>> >>

\* C9: in solar mode with alt-mode on and minAmp x 230 <= raw target <
\* minAmp x 230 x 3, phase mode 2 (1-phase) is forced and the target is the
\* raw target capped at 32 x 230 = 7360 W.
C9_OnePhaseBandCapped ==
    (InCall /\ frame.mode = MODE_SOLAR /\ frame.zoe_mode
            /\ frame.min_amp * 230 <= frame.raw_power
            /\ frame.raw_power < frame.min_amp * 230 * 3)
        => /\ frame.raw_target =
                  (IF frame.raw_power > 7360 THEN 7360 ELSE frame.raw_power)
           /\ PhaseForced(2)

C9_Witness ==
    /\ pc = "phase_sent"
    /\ frame.mode = MODE_SOLAR /\ frame.zoe_mode
    /\ frame.min_amp = 11 /\ frame.raw_power = 7500
    /\ frame.raw_target = 7360
    /\ writes = << <<ADDR_LP1_BASE, 73>>, <<ADDR_LP1_BASE + 9, 2>> >>

\* C10: in solar mode with alt-mode on and a raw target of at least
\* minAmp x 230 x 3, phase mode 3 (3-phase) is forced and the target is the
\* raw target, uncapped.
C10_ThreePhaseUncapped ==
    (InCall /\ frame.mode = MODE_SOLAR /\ frame.zoe_mode
            /\ frame.raw_power >= frame.min_amp * 230 * 3)
        => /\ frame.raw_target = frame.raw_power
           /\ PhaseForced(3)

C10_Witness ==
    /\ pc = "phase_sent"
    /\ frame.mode = MODE_SOLAR /\ frame.zoe_mode
    /\ frame.min_amp = 6 /\ frame.raw_power = 7500
    /\ frame.raw_target = 7500
    /\ writes = << <<ADDR_LP1_BASE, 75>>, <<ADDR_LP1_BASE + 9, 3>> >>

\* ------------------------------------------------------------------------
\* Specification of the fetch: the controller inputs stay the defaults
\* (fast mode: one power write per point, no phase-mode write), the reads
\* of a cycle fail in every way they can.
\* ------------------------------------------------------------------------
\* The ways a request of a read fails.
ReadFaultKinds == {"error", "none", "exception", "short"}

\* Values of the num_points register of the station.
NumPointsValues == {0, 1, 2, 3}

ReadOps == {OpOf(FetchProgram[k]) : k \in 1..Len(FetchProgram)}

PointOps(i) == {OpOf(PointReads(i)[k]) : k \in 1..Len(PointReads(i))}

\* The two reads of _read_string for a string field.
StringOps(point, id) == {<<point, id>>, <<point, id \o "_holding">>}

\* The reads that fail together in one cycle: any single read, both reads
\* of a string, every read of a point, of both points, every read.
FaultSets ==
    {{o} : o \in ReadOps}
    \cup {StringOps(0, "article_number"), StringOps(0, "serial_number"),
          StringOps(1, "rfid_tag"), StringOps(2, "rfid_tag")}
    \cup {PointOps(1), PointOps(2), PointOps(1) \cup PointOps(2), ReadOps}

\* What the station can do to the requests of a cycle that follows run
\* cycles with failed reads.
FetchFaults(run) ==
    {[NoFault EXCEPT !.num_points_reg = v] : v \in NumPointsValues}
    \cup {[NoFault EXCEPT !.ops = s, !.kind = k, !.run = run + 1] :
              s \in FaultSets, k \in ReadFaultKinds}
    \cup {[NoFault EXCEPT !.kind = "unreachable", !.run = run + 1]}

FetchCycleStart ==
    \E f \in FetchFaults(fault.run) :
        f.run <= MaxFaultyRun /\ CycleStart(f)

FetchConnect == ConnectReturns("cycle")

FetchSleep == SleepReturns("cycle")

FetchRespond == Respond("cycle")

FetchRunLogic == CycleRunLogic(fault)

NextFetch ==
    \/ FetchCycleStart
    \/ FetchConnect
    \/ FetchSleep
    \/ FetchRespond
    \/ FetchStep
    \/ FetchRunLogic
    \/ CyclePowerWriteReturns

SpecFetch == InitWrite /\ [][NextFetch]_vars

\* ------------------------------------------------------------------------
\* Specification of the service calls: the station answers every request;
\* the entities of point 1 are operated at any await of the update cycle.
\* After its write a setter awaits async_request_refresh(), which asks
\* the framework for a cycle: cycles start at any time here.
\* ------------------------------------------------------------------------
SetterCall == call["setter"]

\* The task is at an await, or not running: the event loop can run the
\* other task.
CycleSuspended ==
    pc = "idle" \/ CycleCall.stage \in {"connect", "sleep", "wait"}
SetterSuspended ==
    SetterCall.kind = "none" \/ SetterCall.stage \in {"connect", "sleep", "wait"}

\* A service call can start.
SetterCanStart == CycleSuspended /\ SetterCall.kind = "none"

\* Values set on the "Hardware Max Power" number of a point, in watts.
HardwareLimitValues == {DEFAULT_FAST_POWER}

\* CompleoChargingMode.async_select_option
SelectMode(i, v) ==
    /\ SetterCanStart
    /\ UpdateInput(i, "mode", v)
    /\ UNCHANGED iovars

\* CompleoZoeSwitch.async_turn_on
TurnOn(i) ==
    /\ SetterCanStart
    /\ UpdateInput(i, "zoe_mode", TRUE)
    /\ UNCHANGED iovars

\* Values set on the "Input: Solar Excess" number while a cycle may run.
ConcSolarExcessValues == {0, 5000}

\* CompleoVirtualNumber.async_set_native_value
SetVirtualNumber(i, key, value) ==
    /\ SetterCanStart
    /\ UpdateInput(i, key, value)
    /\ UNCHANGED iovars

\* The setter calls async_write_register(address, value).
SetterWrite(op, address, value) ==
    /\ UNCHANGED <<lib, unloaded, sensor, connected, strategy_name, fault, fop, fetch, data,
                   cycle_result, exc_pending>>
    /\ call' = [call EXCEPT !["setter"] = StartWrite(op, <<address, value>>)]

\* CompleoZoeSwitch.async_turn_off up to the await in its write: the
\* phase mode is reset to 1 (automatic).
TurnOff(i) ==
    /\ SetterCanStart
    /\ UpdateInput(i, "zoe_mode", FALSE)
    /\ SetterWrite(<<i, "switch_off">>, BaseAddr(i) + OFFSET_PHASE_MODE, 1)

\* CompleoPointNumber.async_set_native_value up to the await in its
\* write: int(value / multiplier) with multiplier 100.
SetPointNumber(i, value) ==
    /\ SetterCanStart
    /\ SetterWrite(<<i, "number">>, BaseAddr(i) + OFFSET_MAX_POWER,
                   value \div 100)
    /\ UNCHANGED ctlvars

\* async_write_register returned to the setter, which goes on to request
\* a refresh and ends.
SetterReturns ==
    /\ CycleSuspended
    /\ SetterCall.kind # "none"
    /\ SetterCall.stage = "done"
    /\ call' = [call EXCEPT !["setter"] = NoCall]
    /\ UNCHANGED <<ctlvars, lib, unloaded, sensor, connected, strategy_name, fault, fop, fetch,
                   data, cycle_result, exc_pending>>

ConcSelectMode ==
    \E v \in CHARGING_MODES : SelectMode(1, v)

ConcTurnOn == TurnOn(1)

ConcTurnOff == TurnOff(1)

ConcSetPointNumber == \E v \in HardwareLimitValues : SetPointNumber(1, v)

ConcSetSolarExcess ==
    \E v \in ConcSolarExcessValues : SetVirtualNumber(1, "solar_excess", v)

ConcSetterConnect == CycleSuspended /\ ConnectReturns("setter")

ConcSetterSleep == CycleSuspended /\ SleepReturns("setter")

ConcSetterRespond == CycleSuspended /\ Respond("setter")

ConcCycleStart == SetterSuspended /\ CycleStart(NoFault)

ConcCycleConnect == SetterSuspended /\ ConnectReturns("cycle")

ConcCycleSleep == SetterSuspended /\ SleepReturns("cycle")

ConcCycleRespond == SetterSuspended /\ Respond("cycle")

ConcFetchStep == SetterSuspended /\ FetchStep

ConcRunLogic == SetterSuspended /\ CycleRunLogic(fault)

ConcPowerWriteReturns == SetterSuspended /\ CyclePowerWriteReturns

ConcPhaseWriteReturns == SetterSuspended /\ CyclePhaseWriteReturns

NextConc ==
    \/ ConcSelectMode
    \/ ConcTurnOn
    \/ ConcTurnOff
    \/ ConcSetPointNumber
    \/ ConcSetSolarExcess
    \/ SetterReturns
    \/ ConcSetterConnect
    \/ ConcSetterSleep
    \/ ConcSetterRespond
    \/ ConcCycleStart
    \/ ConcCycleConnect
    \/ ConcCycleSleep
    \/ ConcCycleRespond
    \/ ConcFetchStep
    \/ ConcRunLogic
    \/ ConcPowerWriteReturns
    \/ ConcPhaseWriteReturns

SpecConc == InitWrite /\ [][NextConc]_vars

\* ------------------------------------------------------------------------
\* Specification: the entry is unloaded while the update cycle runs
\* ------------------------------------------------------------------------
\* What a request in flight does when the client is closed under it.
ClosedRequestKinds == {"exception", "none"}

\* async_unload_entry, the unload of the platforms having succeeded: the
\* coordinator is popped and the client is closed if it is connected.
\* Nothing there waits for or stops an update cycle: it runs while the
\* cycle is at an await (or between cycles), and a request of the cycle
\* that is in flight fails.
Unload ==
    /\ ~unloaded
    /\ CycleSuspended
    /\ unloaded' = TRUE
    /\ connected' = FALSE
    /\ IF CycleCall.kind # "none" /\ CycleCall.stage = "wait"
       THEN \E k \in ClosedRequestKinds :
                fault' = [fault EXCEPT !.ops = {CycleCall.op}, !.kind = k]
       ELSE UNCHANGED fault
    /\ UNCHANGED <<ctlvars, lib, sensor, strategy_name, call, fop, fetch,
                   data, cycle_result, exc_pending>>

\* The timer is stopped with the last listener: no cycle starts after the
\* unload.  The inputs keep their defaults (fast mode: no phase-mode write).
UnloadCycleStart == ~unloaded /\ CycleStart(NoFault)

NextUnload ==
    \/ UnloadCycleStart
    \/ FetchConnect
    \/ FetchSleep
    \/ FetchRespond
    \/ FetchStep
    \/ FetchRunLogic
    \/ CyclePowerWriteReturns
    \/ Unload

SpecUnload == InitWrite /\ [][NextUnload]_vars

\* ------------------------------------------------------------------------
\* Specification: the values of the snapshot, for registers of the station
\* and failed reads drawn per cycle
\* ------------------------------------------------------------------------
\* Register pairs [A, B] of the firmware version.
FwRegValues == {<<1280, 258>>, <<65535, 4660>>}

\* Contents of the registers of the station in a cycle.
DecodeRegisters ==
    {[fw |-> w,
      energy |-> [i \in Points |-> IF i = 1 THEN e ELSE 7],
      meter |-> [i \in Points |-> IF i = 2 THEN m ELSE 4567]] :
        w \in FwRegValues, e \in {0, 123}, m \in {0, 89}}

\* Reads that fail in a cycle: the firmware read gets a response of one
\* register; the status block of point 1, the meter reading of point 2,
\* every read of point 2 or every read of both points gets none.
DecodeFailures ==
    {[ops |-> {<<0, "firmware_version">>}, kind |-> "short"],
     [ops |-> {<<1, "status_block">>}, kind |-> "none"],
     [ops |-> {<<2, "meter_reading">>}, kind |-> "none"],
     [ops |-> PointOps(2), kind |-> "none"],
     [ops |-> PointOps(1) \cup PointOps(2), kind |-> "none"]}

\* What the station does in the cycle that follows run cycles.
DecodeFaults(run) ==
    {[NoFault EXCEPT !.regs = g, !.run = run + 1] : g \in DecodeRegisters}
    \cup {[NoFault EXCEPT !.ops = x.ops, !.kind = x.kind, !.run = run + 1] :
              x \in DecodeFailures}
    \cup {[NoFault EXCEPT !.num_points_reg = 1, !.run = run + 1]}

DecodeCycleStart ==
    \E f \in DecodeFaults(fault.run) :
        f.run <= MaxDecodeCycles /\ CycleStart(f)

NextDecode ==
    \/ DecodeCycleStart
    \/ FetchConnect
    \/ FetchSleep
    \/ FetchRespond
    \/ FetchStep
    \/ FetchRunLogic
    \/ CyclePowerWriteReturns

SpecDecode == InitWrite /\ [][NextDecode]_vars

\* ------------------------------------------------------------------------
\* Properties of the setpoint writes (SpecWrite)
\* ------------------------------------------------------------------------
\* The write call of the cycle returned to run_logic without a response
\* of the station that acknowledges the write.
WriteFailed ==
    /\ CycleCall.kind = "write"
    /\ CycleCall.stage = "done"
    /\ CycleCall.result # "ok"

\* The phase-mode write of the run_logic call in frame is issued:
\* async_write_register is called with the forced mode.
PhaseWriteIssued ==
    /\ pc' = "phase_sent"
    /\ CycleCall'.kind = "write"
    /\ CycleCall'.address = PhaseRegister
    /\ CycleCall'.arg = frame.target_phase_mode[1]
    /\ CycleCall'.stage \in {"wait", "connect"}

\* C11: when the power write of a run_logic call failed (error response,
\* None, exception, no connection), the phase-mode write of the call is
\* still issued if a phase mode was forced; and when the last write of
\* the call for point 1 failed, the loop goes on with the run of point 2.
C11_WritesIndependent ==
    [][ (WriteFailed /\ pc' # pc) =>
            /\ (pc = "power_sent" /\ frame.target_phase_mode # <<>>)
                   => PhaseWriteIssued
            /\ ((pc = "phase_sent" \/ frame.target_phase_mode = <<>>)
                    /\ idx < num_points)
                   => (pc' = "logic" /\ idx' = idx + 1) ]_vars

\* The run of point 2 waits for the answer to its phase-mode write, after
\* the power writes of point 1 and of point 2 failed.
C11_Witness ==
    /\ pc = "phase_sent"
    /\ frame.index = 2
    /\ {PowerOp(1), PowerOp(2)} \subseteq fault.ops
    /\ CycleCall.address = PhaseRegister
    /\ CycleCall.stage = "wait"

\* C12: within one cycle each setpoint of a point is sent to the station
\* at most once: an async_write_register call sends at most one request.
C12_WriteSentOnce ==
    \A t \in Tasks : call[t].kind = "write" => call[t].sent <= 1

\* A write of the cycle in flight, or of the last cycle, failed: a
\* power write is made for every point of the cycle.
SomeWriteFailed ==
    \/ fault.kind = "unreachable"
    \/ \E i \in Points : PowerOp(i) \in fault.ops /\ i <= data.num_points

\* C13: a write call never ends in an exception, the return of a write
\* never ends the cycle in UpdateFailed, and the cycle (whose reads
\* succeeded) returns the snapshot it fetched however its writes failed.
C13_WriteFailureContained ==
    [][ (CycleCall.kind = "write" /\ CycleCall.stage = "done" /\ pc' # pc) =>
            /\ CycleCall.result # "raised"
            /\ cycle_result' # "UpdateFailed"
            /\ pc' = "idle" => /\ cycle_result' = "data"
                               /\ data' = Snapshot(fetch, num_points) ]_vars

\* A cycle returned its snapshot after a power write of it had failed.
C13_Witness ==
    /\ pc = "idle"
    /\ cycle_result = "data"
    /\ SomeWriteFailed
    /\ data.points[1] # {}

\* C19: after a request raised, the connection is closed and marked
\* disconnected, and no request is sent before connect() was called again.
C19_ReconnectAfterException ==
    exc_pending => /\ ~connected
                   /\ \A t \in Tasks : call[t].stage # "wait"

\* ------------------------------------------------------------------------
\* Properties of the fetch (SpecFetch).  At idle, fault still tells what the
\* station did to the requests of the cycle that just ended.
\* ------------------------------------------------------------------------
\* The last cycle returned a snapshot.
Returned == pc = "idle" /\ cycle_result = "data"

\* Every request of read op failed in the cycle.
ReadFailed(op) == fault.kind = "unreachable" \/ op \in fault.ops

StatusOp(i) == <<i, "status_block">>
NumPointsOp == <<0, "num_points">>

\* The station reported two points.
TwoPointsReported == ~ReadFailed(NumPointsOp) /\ fault.num_points_reg = 2

\* The indices of the points of a snapshot.
PointsOf(d) == {i \in Points : d.points[i] # {}}

\* The fields of a complete snapshot.
AllSystemKeys ==
    UNION {SystemReads[k].keys : k \in 1..Len(SystemReads)}
        \cup {"total_energy_session", "total_energy_total"}
AllPointKeys == UNION {PointReads(1)[k].keys : k \in 1..Len(PointReads(1))}

\* C14: when the read of the first input block of point 1 failed, the
\* cycle ends in UpdateFailed; so does a cycle that got no data at all
\* (no read succeeded).
C14_PointOneMandatory ==
    (pc = "idle" /\ cycle_result # "none"
        /\ (ReadFailed(StatusOp(1)) \/ ReadOps \subseteq fault.ops))
        => cycle_result = "UpdateFailed"

\* C15: with two points reported, when the first input block of point 2
\* failed and that of point 1 did not, the cycle returns a snapshot whose
\* points are exactly {1}; when both were read, the points are {1, 2}.
C15_Discovery ==
    (pc = "idle" /\ cycle_result # "none" /\ TwoPointsReported
        /\ ~ReadFailed(StatusOp(1)))
        => /\ cycle_result = "data"
           /\ PointsOf(data) = IF ReadFailed(StatusOp(2)) THEN {1} ELSE {1, 2}

\* The optional system reads: every system read but num_points.
OptionalReads ==
    {SystemReads[k] : k \in 2..Len(SystemReads)}

\* The system fields none of whose reads succeeded.
LostSystemKeys ==
    UNION {r.keys : r \in {q \in OptionalReads :
                              q.guard # "fallback"
                              /\ (IF q.guard = "string"
                                  THEN StringOps(0, q.id) ELSE {OpOf(q)})
                                     \subseteq fault.ops}}

\* C16: a cycle in which only optional system reads failed (by an error
\* response, None, an exception, short responses) returns a snapshot:
\* it has every system field but those whose reads failed, and every
\* field of both points.
C16_OptionalReadFailure ==
    (pc = "idle" /\ cycle_result # "none" /\ fault.kind \in ReadFaultKinds
        /\ fault.ops \subseteq {OpOf(r) : r \in OptionalReads})
        => /\ cycle_result = "data"
           /\ data.system = AllSystemKeys \ LostSystemKeys
           /\ \A i \in Points : data.points[i] = AllPointKeys

\* The read of fallback_power raised in the last cycle, which returned a
\* snapshot without that field and with the others.
C16_Witness ==
    /\ Returned
    /\ fault.ops = {<<0, "fallback_power">>}
    /\ fault.kind = "exception"
    /\ "fallback_power" \notin data.system
    /\ "max_schieflast" \in data.system

\* C17: num_points of a returned snapshot is the value of the register
\* when the read succeeded with 1 or 2, and 1 otherwise.
C17_NumPoints ==
    Returned =>
        /\ data.num_points \in {1, 2}
        /\ "num_points" \in data.system
        /\ data.num_points =
               IF ~ReadFailed(NumPointsOp) /\ fault.num_points_reg = 1 THEN 1
               ELSE IF ~ReadFailed(NumPointsOp) /\ fault.num_points_reg = 2
               THEN 2
               ELSE 1

\* A snapshot was returned by a cycle that read 3 in the register, and
\* one by a cycle whose read of the register failed.
C17_Witness ==
    /\ Returned
    /\ data.num_points = 1
    /\ \/ (fault.kind = "ok" /\ fault.num_points_reg = 3)
       \/ fault.ops = {NumPointsOp}

\* The fields of system and points were all read in the cycle of fault,
\* or derived in it (num_points, the energy totals).
FromThisCycle(system, points) ==
    /\ \A key \in system :
           \/ key \in {"num_points", "total_energy_session",
                       "total_energy_total"}
           \/ \E k \in 1..Len(SystemReads) :
                  /\ key \in SystemReads[k].keys
                  /\ ~ReadFailed(OpOf(SystemReads[k]))
    /\ \A i \in Points : \A key \in points[i] :
           \E k \in 1..Len(PointReads(i)) :
               /\ key \in PointReads(i)[k].keys
               /\ ~ReadFailed(OpOf(PointReads(i)[k]))

\* C18: the snapshot a cycle built (held in new_data while run_logic
\* runs) and the snapshot it returned have only fields read or derived
\* in that cycle: a field whose reads failed is absent, whatever
\* coordinator.data had before.
C18_BuiltFromScratch ==
    /\ pc \in {"logic", "power_sent", "phase_sent"}
           => FromThisCycle(fetch.system, fetch.points)
    /\ Returned => FromThisCycle(data.system, data.points)

\* The cycle built a snapshot without the status fields of point 2, whose
\* read failed, while coordinator.data, from the cycle before, has them.
C18_Witness ==
    /\ pc = "power_sent"
    /\ frame.index = 2
    /\ ReadFailed(StatusOp(2))
    /\ "status_word" \in data.points[2]
    /\ "status_word" \notin fetch.points[2]
    /\ fetch.points[2] # {}

\* ------------------------------------------------------------------------
\* Properties of the service calls (SpecConc)
\* ------------------------------------------------------------------------
\* The tasks that wait for the answer to a request they sent.
InFlight == {t \in Tasks : call[t].stage = "wait"}

\* C20: at no time are two requests in flight on the connection of the
\* station.
C20_RequestsSerialized == Cardinality(InFlight) <= 1

\* ------------------------------------------------------------------------
\* The life of a point's controller state
\* ------------------------------------------------------------------------
InputKeys == {"mode", "manual_limit", "solar_excess", "zoe_mode", "zoe_min_current"}
HysteresisKeys == {"stable_target", "last_change_ts"}

\* The keys of point i whose value a step changes.
ChangedKeys(i) ==
    {k \in DOMAIN DefaultPointState : points_state'[i][k] # points_state[i][k]}

\* The keys of point i that are not at their default after a step.
SetKeys(i) ==
    {k \in DOMAIN DefaultPointState : points_state'[i][k] # DefaultPointState[k]}

\* A step on an existing point: the state stays, update_input changes the
\* one key it was given, run_logic only the hysteresis state of its point.
PointKept(i) ==
    /\ i \in DOMAIN points_state'
    /\ IF pc = "idle" THEN
           /\ ChangedKeys(i) \subseteq InputKeys
           /\ Cardinality(ChangedKeys(i)) <= 1
       ELSE IF pc = "logic" /\ i = idx THEN
           ChangedKeys(i) \subseteq HysteresisKeys
       ELSE ChangedKeys(i) = {}

\* A step that creates a point: the defaults, but for the key update_input
\* was given.
PointCreated(i) ==
    i \in DOMAIN points_state' =>
        /\ SetKeys(i) \subseteq InputKeys
        /\ Cardinality(SetKeys(i)) <= 1
        /\ points_state'[i].stable_target = 0
        /\ points_state'[i].last_change_ts = 0
        /\ (SetKeys(i) = {} => points_state'[i].mode = MODE_FAST)

\* C22: the controller state of a point is created on the first reference
\* to its index with the defaults (mode fast, stable_target 0,
\* last_change_ts 0) and is never deleted or re-initialised afterwards: a
\* later init_point, get_input, update_input or run_logic on an existing
\* index resets no field.
C22_StateCreatedOnce ==
    [][\A i \in Points :
           IF i \in DOMAIN points_state THEN PointKept(i) ELSE PointCreated(i)]_vars

\* run_logic ran on a point whose state had long left the defaults, and
\* the state is still there.
C22_Witness ==
    /\ InCall
    /\ PointNow.mode = MODE_SOLAR
    /\ PointNow.zoe_mode
    /\ PointNow.solar_excess > 0
    /\ frame.last_target > 0
    /\ PointNow.stable_target > 0

\* C23: in limited mode every cycle writes manual_limit, in units of 100 W,
\* to the max-power register of the point: no hysteresis (the hysteresis
\* state is left as it was), whatever solar_excess and stable_target are.
C23_LimitedWritesManualLimit ==
    (InCall /\ frame.mode = MODE_LIMITED) =>
        /\ frame.target_power = PointNow.manual_limit
        /\ PowerWrite = <<PowerRegister, PointNow.manual_limit \div 100>>
        /\ PointNow.stable_target = frame.last_target
        /\ PointNow.last_change_ts = frame.last_ts

\* A limited cycle with a solar excess and a stable target, both different
\* from the manual limit.
C23_Witness ==
    /\ InCall
    /\ frame.mode = MODE_LIMITED
    /\ PointNow.solar_excess > DEFAULT_SOLAR_BUFFER
    /\ PointNow.stable_target > 0
    /\ PointNow.stable_target # PointNow.manual_limit
    /\ PointNow.solar_excess - DEFAULT_SOLAR_BUFFER # PointNow.manual_limit

\* C24: in solar mode the raw target is max(0, solar_excess -
\* DEFAULT_SOLAR_BUFFER): never negative, and 0 whenever solar_excess is at
\* most the buffer.
C24_SolarRawTarget ==
    (InCall /\ frame.mode = MODE_SOLAR) =>
        /\ frame.raw_power >= 0
        /\ frame.raw_power >= PointNow.solar_excess - DEFAULT_SOLAR_BUFFER
        /\ \/ frame.raw_power = 0
           \/ frame.raw_power = PointNow.solar_excess - DEFAULT_SOLAR_BUFFER
        /\ (PointNow.solar_excess <= DEFAULT_SOLAR_BUFFER => frame.raw_power = 0)

\* A solar cycle whose excess is below the buffer: the difference is
\* negative and the raw target is 0.
C24_Witness ==
    /\ InCall
    /\ frame.mode = MODE_SOLAR
    /\ PointNow.solar_excess < DEFAULT_SOLAR_BUFFER
    /\ frame.raw_power = 0

\* C25: the value written to the max-power register is the effective target
\* in watts divided by 100 and truncated: a target of 100k + r W with
\* 0 <= r < 100 is written as k.
C25_WrittenValueTruncated ==
    InCall =>
        /\ frame.target_power >= 0
        /\ PowerWrite[1] = PowerRegister
        /\ PowerWrite[2] * 100 <= frame.target_power
        /\ frame.target_power < PowerWrite[2] * 100 + 100

\* A target that is not a multiple of 100 W, in the upper half of its
\* interval: 2050 W is written as 20.
C25_Witness ==
    /\ InCall
    /\ frame.target_power % 100 >= 50
    /\ PowerWrite[2] = frame.target_power \div 100

\* C30: after every solar cycle of run_logic the value written to the
\* max-power register is the stable_target the cycle left, divided by 100
\* and truncated.
C30_WrittenIsStableTarget ==
    (InCall /\ frame.mode = MODE_SOLAR) =>
        PowerWrite = <<PowerRegister, PointNow.stable_target \div 100>>

\* A solar cycle that held back a lower raw target: the old stable target
\* is the one written.
C30_Witness ==
    /\ InCall
    /\ frame.mode = MODE_SOLAR
    /\ frame.last_target > 0
    /\ frame.raw_target < frame.last_target
    /\ PointNow.stable_target = frame.last_target
    /\ PowerWrite[2] = frame.last_target \div 100

\* ------------------------------------------------------------------------
\* The inputs of one run_logic call
\* ------------------------------------------------------------------------
\* The state run_logic read, had it found solar_excess se and manual_limit
\* ml next to the inputs and the hysteresis state its locals show.
InputsRead(se, ml) ==
    [mode |-> frame.mode,
     manual_limit |-> ml,
     solar_excess |-> se,
     zoe_mode |-> frame.zoe_mode,
     zoe_min_current |-> frame.min_amp,
     last_power_target |-> 0,
     last_change_ts |-> frame.last_ts,
     stable_target |-> frame.last_target]

\* What the call wrote and stored is what steps 1 to 3 give on the state st.
ComputedFrom(st) ==
    LET r == ComputeTarget(st, frame.now)
    IN  /\ frame.target_power = r.target_power
        /\ frame.target_phase_mode = r.target_phase_mode
        /\ writes[1] = <<PowerRegister, ValToWrite(r.target_power)>>
        /\ pc = "phase_sent" =>
               /\ r.target_phase_mode # <<>>
               /\ writes[2] = <<PhaseRegister, r.target_phase_mode[1]>>
        /\ PointNow.stable_target = r.stable_target
        /\ PointNow.last_change_ts = r.last_change_ts

\* An input of the point of the call was set while the call was suspended.
InputSetDuringCall ==
    \/ PointNow.mode # frame.mode
    \/ PointNow.zoe_mode # frame.zoe_mode

\* C28: run_logic reads its inputs and updates stable_target and
\* last_change_ts without a suspension in between: whatever update_input
\* calls are interleaved at the awaits of the cycle, the power written, the
\* phase mode written and the hysteresis state stored by one call all come
\* from one set of input values.
C28_InputsReadOnce ==
    InCall =>
        \E se \in ConcSolarExcessValues, ml \in {DEFAULT_LIMITED_POWER} :
            ComputedFrom(InputsRead(se, ml))

\* The phase-mode write of a call is in flight and an input of its point
\* was set after the call read it.
C28_Witness ==
    /\ pc = "phase_sent"
    /\ InputSetDuringCall
    /\ PointNow.solar_excess > 0

\* ------------------------------------------------------------------------
\* Exceptions of the cycle
\* ------------------------------------------------------------------------
\* The reads of point i whose result is tested with len(rr.registers)
\* without hasattr.
UnguardedOps(i) ==
    {OpOf(PointReads(i)[k]) :
        k \in {n \in 1..Len(PointReads(i)) : PointReads(i)[n].guard = "point"}}

\* _read_charging_point_data is called for point i in the cycle.
PointIsRead(i) == i = 1 \/ TwoPointsReported

\* The fetch of the cycle raises: a read of a point that is made gets an
\* error response that has no .registers (AttributeError).
FetchRaises ==
    /\ fault.kind = "error"
    /\ ~lib.err_has_registers
    /\ \E i \in Points : PointIsRead(i) /\ UnguardedOps(i) \cap fault.ops # {}

\* C29: an exception raised while fetching or running the controller is
\* reported as UpdateFailed and nothing else; the controller runs only
\* after the fetch of the cycle returned, so a cycle whose fetch failed
\* writes no setpoint.
C29_ExceptionsBecomeUpdateFailed ==
    /\ cycle_result \in {"none", "data", "UpdateFailed"}
    /\ (pc = "idle" /\ cycle_result # "none") =>
           (cycle_result = "UpdateFailed" <=> FetchRaises)
    /\ pc = "fetch" => (writes = <<>> /\ CycleCall.kind # "write")
    /\ pc \in {"logic", "power_sent", "phase_sent"} =>
           /\ ~FetchRaises
           /\ fop = 0
           /\ {"total_energy_session", "total_energy_total"} \subseteq fetch.system

\* The fetch raised on point 2, after every read of point 1 succeeded: the
\* cycle ended in UpdateFailed.
C29_Witness ==
    /\ pc = "idle"
    /\ cycle_result = "UpdateFailed"
    /\ FetchRaises
    /\ UnguardedOps(1) \cap fault.ops = {}
    /\ writes = <<>>

\* ------------------------------------------------------------------------
\* Shutdown
\* ------------------------------------------------------------------------
\* A request is in flight on a connected client.
RequestOnLine ==
    \E t \in Tasks : call[t].kind # "none" /\ call[t].stage = "wait" /\ connected

\* C21: after async_unload_entry has completed and the cycle that was in
\* flight has finished, the client is disconnected, and no read or write
\* was issued after the close: the cycle in flight does not reconnect the
\* closed client.
C21_ShutdownLeavesClosed ==
    unloaded =>
        /\ ~RequestOnLine
        /\ pc = "idle" => ~connected

\* ------------------------------------------------------------------------
\* The values of a snapshot
\* ------------------------------------------------------------------------
\* The sum of field key over the points of S in snapshot d, a missing
\* field counting as 0.
RECURSIVE FieldSum(_, _, _)
FieldSum(d, key, S) ==
    IF S = {} THEN 0
    ELSE LET i == CHOOSE j \in S : TRUE
             v == d.values.points[i][key]
         IN  (IF v = <<>> THEN 0 ELSE v[1]) + FieldSum(d, key, S \ {i})

\* No read of the fetch stores key.
NeverRead(key) ==
    \A k \in 1..Len(FetchProgram) : key \notin FetchProgram[k].keys

\* C26: total_energy_session and total_energy_total of a snapshot are the
\* sums of energy_session and meter_reading over exactly the points the
\* snapshot includes, a missing field counting as 0; they are 0 when no
\* point is included, and no register read gives them.
C26_EnergyTotals ==
    Returned =>
        /\ {"total_energy_session", "total_energy_total"} \subseteq data.system
        /\ data.values.total_energy_session =
               <<FieldSum(data, "energy_session", PointsOf(data))>>
        /\ data.values.total_energy_total =
               <<FieldSum(data, "meter_reading", PointsOf(data))>>
        /\ \A i \in Points \ PointsOf(data) :
               data.values.points[i] = NoPointValues
        /\ PointsOf(data) = {} =>
               /\ data.values.total_energy_session = <<0>>
               /\ data.values.total_energy_total = <<0>>
        /\ NeverRead("total_energy_session")
        /\ NeverRead("total_energy_total")

\* A snapshot of two points, point 1 without its energy_session: the
\* session total is that of point 2, the meter total the sum of both.
C26_Witness ==
    /\ Returned
    /\ PointsOf(data) = {1, 2}
    /\ data.values.points[1].energy_session = <<>>
    /\ data.values.points[2].energy_session = <<700>>
    /\ data.values.total_energy_session = <<700>>
    /\ data.values.total_energy_total = <<456700 + 8900>>

FirmwareOp == <<0, "firmware_version">>

\* C27: for the registers [A, B] read at 0x0006-0x0007 the firmware version
\* is major.minor.patch with major the high byte of B, minor the low byte
\* of B and patch the high byte of A ([0x0500, 0x0102] gives 1.2.5); the
\* field is absent when fewer than 2 registers are returned.
C27_FirmwareDecoding ==
    Returned =>
        LET A == fault.regs.fw[1]
            B == fault.regs.fw[2]
            v == data.values.firmware_version
        IN  IF ReadFailed(FirmwareOp)
            THEN "firmware_version" \notin data.system /\ v = <<>>
            ELSE /\ "firmware_version" \in data.system
                 /\ Len(v) = 1
                 /\ v[1][2] \in 0..255
                 /\ v[1][1] * 256 + v[1][2] = B
                 /\ v[1][3] * 256 <= A
                 /\ A < v[1][3] * 256 + 256
                 /\ (A = 1280 /\ B = 258) => v[1] = <<1, 2, 5>>

\* The registers [0x0500, 0x0102] were read and decoded.
C27_Witness ==
    /\ Returned
    /\ fault.regs.fw = <<1280, 258>>
    /\ ~ReadFailed(FirmwareOp)
    /\ data.values.firmware_version = << <<1, 2, 5>> >>

\* ------------------------------------------------------------------------
\* Phase mode, presence and hold time
\* ------------------------------------------------------------------------
\* C31: in solar mode with alt-mode on, a cycle that writes phase mode 3
\* writes a power of at least minAmp x 230 x 3 W, and a cycle that writes
\* phase mode 2 a power of at most 7360 W, also when the hysteresis holds
\* back the raw target from which the phase mode was chosen.
C31_PhasePowerConsistent ==
    (pc = "phase_sent" /\ frame.mode = MODE_SOLAR /\ frame.zoe_mode) =>
        /\ writes[2][2] = 3 => frame.target_power >= frame.min_amp * 230 * 3
        /\ writes[2][2] = 2 => frame.target_power <= 7360

\* C32: the controller writes setpoints for a point in a cycle only if the
\* point is in the snapshot fetched in that cycle.
C32_WritesOnlyPresentPoints ==
    InCall => fetch.points[frame.index] # {}

\* C33: in solar mode a raw target that stays at v is accepted at the
\* latest in the first cycle that runs 20 minutes or more after
\* last_change_ts: stable_target is v and v / 100 is written.
C33_AcceptedAfterHold ==
    (InCall /\ frame.mode = MODE_SOLAR
            /\ SinceChange >= TIME_HOLD_RISING * 60) =>
        /\ PointNow.stable_target = frame.raw_target
        /\ PowerWrite = <<PowerRegister, frame.raw_target \div 100>>

\* A higher raw target, held back in the cycles before, is accepted in a
\* cycle 20 minutes or more after the last change.
C33_Witness ==
    /\ InCall
    /\ frame.mode = MODE_SOLAR
    /\ frame.last_target > 0
    /\ frame.last_ts > 0
    /\ frame.raw_target > frame.last_target
    /\ SinceChange >= TIME_HOLD_RISING * 60
    /\ PointNow.stable_target = frame.raw_target
    /\ PointNow.last_change_ts = frame.now

\* C35: a cycle in fast or limited mode leaves stable_target and
\* last_change_ts of the point unchanged; a solar cycle modifies
\* last_change_ts only when it assigns stable_target, and sets it to the
\* current time, so it never decreases.
C35_HysteresisFrame ==
    InCall =>
        /\ frame.mode # MODE_SOLAR =>
               /\ PointNow.stable_target = frame.last_target
               /\ PointNow.last_change_ts = frame.last_ts
        /\ PointNow.last_change_ts # frame.last_ts =>
               /\ PointNow.last_change_ts = frame.now
               /\ PointNow.stable_target = frame.target_power
        /\ PointNow.stable_target # frame.last_target =>
               PointNow.last_change_ts = frame.now
        /\ PointNow.last_change_ts >= frame.last_ts

\* A solar cycle that held its target after an earlier change, and a fast
\* cycle on a point with a stable target: the time stamp is the old one.
C35_Witness ==
    /\ InCall
    /\ frame.last_ts > 0
    /\ frame.last_target > 0
    /\ PointNow.last_change_ts = frame.last_ts
    /\ frame.now > frame.last_ts
    /\ \/ frame.mode = MODE_FAST
       \/ frame.mode = MODE_SOLAR /\ frame.raw_target # frame.last_target

\* ------------------------------------------------------------------------
\* Points and their registers
\* ------------------------------------------------------------------------
\* The points whose controller state a step creates or changes.
PointsTouched ==
    {j \in Points :
        \/ (j \in DOMAIN points_state) # (j \in DOMAIN points_state')
        \/ /\ j \in DOMAIN points_state
           /\ j \in DOMAIN points_state'
           /\ points_state'[j] # points_state[j]}

\* The registers run_logic(i) may write: base_i + 0x000 and base_i + 0x009,
\* with base 0x0100 for point 1 and 0x0200 for point 2.
OwnRegisters(i) ==
    IF i = 1 THEN {256, 256 + 9} ELSE IF i = 2 THEN {512, 512 + 9} ELSE {}

PowerWriteOf(ps, i, t) ==
    <<BaseAddr(i) + OFFSET_MAX_POWER,
      ValToWrite(ComputeTarget(init_point(ps, i)[i], t).target_power)>>

\* C37: every cycle whose fetch succeeds writes the max-power register of
\* every point 1..num_points, in every charging mode, with the target of
\* the controller: a value written to that register through the "Hardware
\* Max Power" number is overwritten in the next cycle.
C37_EveryPointWritten ==
    [][/\ (pc = "fetch" /\ pc' # "fetch" /\ pc' # "idle") =>
              (pc' = "logic" /\ idx' = 1 /\ num_points' \in {1, 2})
       /\ pc = "logic" =>
              /\ idx <= num_points
              /\ pc' = "power_sent"
              /\ call'["cycle"].kind = "write"
              /\ <<call'["cycle"].address, call'["cycle"].arg>> =
                     PowerWriteOf(points_state, idx, now)
       /\ (InCall /\ pc' = "logic") => (idx' = idx + 1 /\ idx' <= num_points)
       /\ (InCall /\ pc' = "idle") =>
              (idx = num_points /\ cycle_result' = "data")]_vars

\* The cycle writes the target of the controller to the max-power register
\* of point 1, in limited mode, while the write of another value to the
\* same register by the number entity is in flight.
C37_Witness ==
    /\ pc = "power_sent"
    /\ frame.index = 1
    /\ frame.mode = MODE_LIMITED
    /\ CycleCall.kind = "write"
    /\ CycleCall.stage = "wait"
    /\ SetterCall.kind = "write"
    /\ SetterCall.address = CycleCall.address
    /\ SetterCall.arg # CycleCall.arg

\* C34: once async_turn_off has completed and the cycles in flight during
\* it have finished, the last value written to the phase-mode register of
\* the point is 1: a cycle that computed a forced phase mode before the
\* switch-off does not write it after the reset.
C34_TurnOffDurable ==
    [][~(/\ pc = "power_sent"
         /\ pc' = "phase_sent"
         /\ frame.index = 1
         /\ frame.zoe_mode
         /\ ~points_state[1].zoe_mode
         /\ SetterCall.kind = "none"
         /\ call'["cycle"].kind = "write"
         /\ call'["cycle"].address = BaseAddr(1) + OFFSET_PHASE_MODE
         /\ call'["cycle"].arg # 1)]_vars

\* ------------------------------------------------------------------------
\* The call strategies of _read_registers_safe
\* ------------------------------------------------------------------------
StrategyNames == {Strategies[k] : k \in 1..Len(Strategies)}

\* The request of a read of the cycle in flight gets its answer in this
\* step.
ReadAnswered ==
    /\ CycleCall.kind = "read"
    /\ CycleCall.stage = "wait"
    /\ call'["cycle"] # CycleCall

\* What the step of an answered read does on outcome o.
AnswerHandled(o) ==
    LET c == CycleCall
        d == call'["cycle"]
    IN  /\ o = "ok" =>
               /\ strategy_name' = <<Head(c.todo)>>
               /\ d.stage = "done" /\ d.result = "ok" /\ d.sent = c.sent
        /\ o \in {"error", "none"} =>
               /\ strategy_name' = strategy_name
               /\ d.stage = "done" /\ d.result = o /\ d.sent = c.sent
        /\ o \in {"exception", "short"} =>
               /\ strategy_name' = strategy_name
               /\ \/ /\ d.stage = "wait"
                     /\ d.sent = c.sent + 1
                     /\ Len(d.todo) < Len(c.todo)
                     /\ Head(d.todo) # Head(c.todo)
                     /\ Accepts(lib, Head(d.todo))
                  \/ /\ d.stage = "done"
                     /\ d.result = "none"
                     /\ d.sent = c.sent
                     /\ \/ ~connected'
                        \/ \A k \in 2..Len(c.todo) : ~Accepts(lib, c.todo[k])

\* C40: _strategy_name is None or one of the six strategy names; it is set
\* to the strategy that returned a full response, which is tried first on
\* the next read; an error or None response is returned at once, without
\* another strategy and without a change of the cache; an exception or a
\* short response moves on to the next strategy, and None is returned when
\* all have failed.
C40_StrategyCache ==
    [][/\ strategy_name = <<>>
          \/ (Len(strategy_name) = 1 /\ strategy_name[1] \in StrategyNames)
       /\ (CycleCall.kind = "read" /\ CycleCall.stage = "wait"
                /\ CycleCall.sent = 1 /\ strategy_name # <<>>) =>
              Head(CycleCall.todo) = strategy_name[1]
       /\ ReadAnswered => AnswerHandled(Outcome(fault, CycleCall.op))
       /\ ~ReadAnswered => strategy_name' = strategy_name]_vars

\* A read after the first one of a library that takes unit= only: the
\* cached strategy, the second of the list, is the one requested first.
C40_Witness ==
    /\ lib.kw = "unit"
    /\ strategy_name = <<"unit_pos_cnt">>
    /\ fop > 1
    /\ CycleCall.kind = "read"
    /\ CycleCall.stage = "wait"
    /\ CycleCall.sent = 1
    /\ Head(CycleCall.todo) = "unit_pos_cnt"
    /\ Outcome(fault, CycleCall.op) = "short"

\* ------------------------------------------------------------------------
\* Specification: the accumulated energy sensor of point 1, over cycles in
\* which the session energy of the station grows or starts anew and the
\* reads of the point fail
\* ------------------------------------------------------------------------
\* _total_value and _last_session_value (Wh) that async_added_to_hass
\* restores from the last state: none, or those of an earlier run.
RestoredStates == {<<0, 0>>, <<20000, 5000>>}

\* Contents of the session-energy register of point 1.
SessionRegisters == {0, 50, 123}

\* Reads that fail in a cycle: none, the status block of point 1, or every
\* read of point 1 (the point is left out of the snapshot).
SensorFailures == {{}, {<<1, "status_block">>}, PointOps(1)}

\* The cycle of f puts the session energy of point 1 in its snapshot.
ShowsSession(f) == f.run > 0 /\ <<1, "status_block">> \notin f.ops

\* What the station does in the cycle after that of prev: the session of
\* point 1 goes on (its register does not fall) or a new one has started.
\* shown is the energy of the running session that the last snapshot with
\* the field has shown, 0 for a session no snapshot has shown.
SensorFaults(prev) ==
    UNION {
      {[NoFault EXCEPT
            !.ops = x,
            !.kind = IF x = {} THEN "ok" ELSE "none",
            !.num_points_reg = 1,
            !.run = prev.run + 1,
            !.regs.energy[1] = e,
            !.shown = IF new THEN 0
                      ELSE IF ShowsSession(prev)
                      THEN TenthsOfKWh(prev.regs.energy[1])
                      ELSE prev.shown] :
          x \in SensorFailures,
          e \in {r \in SessionRegisters : new \/ r >= prev.regs.energy[1]}} :
      new \in BOOLEAN}

\* The sensor platform is set up: the entity is added to hass and its state
\* restored.
InitSensor ==
    /\ \E r \in RestoredStates :
           sensor = [added |-> TRUE, total_value |-> r[1],
                     last_session_value |-> r[2]]
    /\ InitController
    /\ InitCoordinator([kw |-> "slave", pos_count |-> TRUE,
                        err_has_registers |-> TRUE])

SensorCycleStart ==
    \E f \in SensorFaults(fault) :
        f.run <= MaxSensorCycles /\ CycleStart(f)

NextSensor ==
    \/ SensorCycleStart
    \/ FetchConnect
    \/ FetchSleep
    \/ FetchRespond
    \/ FetchStep
    \/ FetchRunLogic
    \/ CyclePowerWriteReturns

SpecSensor == InitSensor /\ [][NextSensor]_vars

\* The step stores the snapshot of a cycle in coordinator.data.
SnapshotStored == pc # "idle" /\ pc' = "idle" /\ cycle_result' = "data"

\* The session energy of point 1 in snapshot d: <<>> when it is missing.
SessionIn(d) == d.values.points[1].energy_session

\* C38: the accumulated energy never decreases; an update with session
\* value current adds current - last when current >= last and current when
\* current < last, and sets last_session_value to current.
C38_AccumulatedMonotonic ==
    [][LET current == Get(SessionIn(data'), 0)
           last == sensor.last_session_value
       IN  /\ sensor'.total_value >= sensor.total_value
           /\ SnapshotStored =>
                  /\ current >= 0
                  /\ sensor'.total_value = sensor.total_value
                         + IF current >= last THEN current - last
                           ELSE current
                  /\ sensor'.last_session_value = current
           /\ ~SnapshotStored => sensor' = sensor]_vars

\* After a session of 12.3 kWh a new one has reached 5 kWh: the total is
\* that of both.
C38_Witness ==
    /\ pc = "idle"
    /\ cycle_result = "data"
    /\ fault.run = 2
    /\ fault.shown = 0
    /\ SessionIn(data) = <<5000>>
    /\ sensor.last_session_value = 5000
    /\ sensor.total_value = 17300

\* C39: when the session energy was missing from the last snapshot and is
\* back, for the session that an earlier snapshot has shown, the total
\* grows by the energy delivered since that snapshot only.
C39_SessionCountedOnce ==
    [][(/\ SnapshotStored
        /\ sensor.added
        /\ fault.shown > 0
        /\ SessionIn(data) = <<>>
        /\ SessionIn(data') # <<>>) =>
           sensor'.total_value =
               sensor.total_value + (SessionIn(data')[1] - fault.shown)]_vars

====
